---- MODULE Spec2Model ----
(***************************************************************************)
(* A model of PyOP2's loop-fusion inspector (pyop2/fusion/transformer.py)  *)
(* and of the OpenMP backend's colored execution of a parallel loop        *)
(* (pyop2/openmp.py).                                                      *)
(*                                                                         *)
(* Three specifications share the module:                                  *)
(*   SpecPlan      ParLoop._get_plan / ParLoop._compute / the wrapper      *)
(*   SpecInspector Inspector.__init__ / Inspector.inspect and its passes   *)
(*   SpecAnalyzer  loops_analyzer on pairs of loops                        *)
(* Each one leaves the variables of the other two at their idle values.    *)
(***************************************************************************)
EXTENDS Integers, Sequences, FiniteSets, TLC

\* ------------------------------------------------------------------ bounds
\* largest part.size of the iteration-set part handed to _compute
MaxSize == 3
\* largest part.offset
MaxOffset == 1
\* largest partition size tried (ParLoop._compute itself passes 1024)
MaxPartSize == 2
\* number of data locations reachable through the map of a written argument
NumTargets == 2
\* number of inspection requests followed
MaxReqs == 4
\* longest loop chain handed to an Inspector
MaxLoops == 2
\* number of data sets (Dats) the loops of an analysis may access
NumDats == 2
\* largest number of arguments of a loop
MaxArgs == 2
\* longest loop chain the fusion passes are run on
MaxChain == 3
\* number of Dats the loops of a chain of one or two loops may access
NumPairDats == 3
\* number of statements in the body of a kernel
KernelStmts == 2
\* number of elements of the base loop's set an orchestrator is run on
NumBaseElems == 2
\* number of elements of the fuse loop's set
NumFuseElems == 3
\* longest loop chain handed to _tile
MaxTileLoops == 2
\* largest number of arguments of a loop handed to _tile
MaxTileArgs == 2
\* number of OpenMP threads of a launch
NumThreads == 2
\* number of blocks of a launch with a global reduction
NumRedBlocks == 2
\* largest contribution of an element to a global reduction
MaxContribution == 2
\* largest value of the global before the launch
MaxGlobal == 3

VARIABLES
    \* ---- SpecPlan: one invocation of ParLoop._compute
    part,          \* [size, offset]: the part of the iteration set
    part_size,     \* the partition size handed to _get_plan
    is_indirect,   \* ParLoop._is_indirect
    wtargets,      \* element -> locations it writes (WRITE/INC) through a map
    plan,          \* the plan _get_plan returned (NoPlan before)
    pc,            \* position in _compute: "idle","start","loop","in_fun","done"
    c,             \* the color loop's index
    boffset,       \* _compute's boffset
    todo,          \* positions __b of the wrapper's omp-for not yet taken
    running,       \* positions __b some thread is executing
    finished,      \* positions __b whose block has completed
    launches,      \* history: <<c, boffset, nblocks>> of every call of fun
    runs,          \* history: block id -> number of times it was executed
    \* ---- SpecInspector: the inspection requests of one process
    exec_mode,     \* slope.get_exec_mode()
    deep,          \* the sets that carry _deep_size
    the_chain,     \* the loop chain the client asks to inspect
    the_mode,      \* the fusion mode the client asks for
    cache,         \* Inspector._cache: key -> Inspector object
    reqs,          \* history: key -> the requests made for it so far
    last,          \* history: the last request and its outcome
    nreq,          \* number of requests made
    \* ---- SpecAnalyzer: one call of loops_analyzer
    loop1,         \* the earlier loop: [it_space, args]
    loop2,         \* the later loop
    info,          \* <<>> before the call, <<the dictionary returned>> after
    \* ---- SpecFusion: the fusion passes on one loop chain
    in_chain,      \* the chain handed to the Inspector
    soft,          \* <<>>, or <<what _soft_fuse made of loop_chain>>
    resoft,        \* <<>>, or <<what _soft_fuse made of its own result>>
    hard,          \* <<>>, or <<what _hard_fuse made of the soft-fused chain>>
    \* ---- SpecOrchestrator: runs of a hard-fusion orchestrator
    orch_map,      \* the fusion map the orchestrator was built for
    map_values,    \* base element -> the fuse elements the map relates to it
    executed,      \* the caller's array of flags, one per fuse element
    orch_pc,       \* [iter, at]: the base iteration running (0: none) and
                   \* the statement of the orchestrator it is at
    calls,         \* history: the kernel calls made, in order
    invoked,       \* history: the base iterations started, in order
    \* ---- SpecTile: _tile handing one loop chain over to SLOPE
    tile_chain,    \* the loop chain _tile reads
    tile_pc,       \* the loop the for loop is at (n + 1: add_sets.. next,
                   \* n + 2: done, for n loops; -1: raised; 0: not called)
    insp_sets,     \* the names of the SLOPE sets created so far
    insp_maps,     \* map name -> (map_name, iterset, toset)
    insp_loops,    \* the (kernel, set, descriptors) appended so far
    slope_insp,    \* <<>>, or <<what the SLOPE inspector was given>>
    \* ---- SpecReduction: one launch of the OpenMP wrapper, one global
    red_access,    \* the access of the global reduction argument
    gbl,           \* the global (one entry)
    gbl_before,    \* history: the global when the wrapper was called
    contribution,  \* block -> what the kernel contributes for its element
    owner,         \* block -> the thread the omp for gives it to
    tpc,           \* thread -> where it is in the parallel region
    interm,        \* thread -> its intermediate global
    loaded,        \* thread -> the global as read by its writeback
    critical,      \* the thread inside the critical section (0: none)
    block_runs     \* history: block -> times the kernel ran for it

planVars == <<part, part_size, is_indirect, wtargets, plan, pc, c, boffset,
              todo, running, finished, launches, runs>>

inspVars == <<exec_mode, deep, the_chain, the_mode, cache, reqs, last, nreq>>

anVars == <<loop1, loop2, info>>

fuVars == <<in_chain, soft, resoft, hard>>

orVars == <<orch_map, map_values, executed, orch_pc, calls, invoked>>

tiVars == <<tile_chain, tile_pc, insp_sets, insp_maps, insp_loops, slope_insp>>

reVars ==
    <<red_access, gbl, gbl_before, contribution, owner, tpc, interm, loaded,
      critical, block_runs>>

vars == <<planVars, inspVars, anVars, fuVars, orVars, tiVars, reVars>>

\* ------------------------------------------------------------ small helpers
Min(a, b) == IF a < b THEN a ELSE b

RECURSIVE SumTo(_, _)
\* f[0] + ... + f[n-1]
SumTo(f, n) == IF n <= 0 THEN 0 ELSE f[n - 1] + SumTo(f, n - 1)

\* math.ceil(a / float(b)) for a >= 0, b > 0
Ceil(a, b) == (a + b - 1) \div b

Targets == 1..NumTargets

NoPlan == [nblocks |-> 0, ncolors |-> 0, ncolblk |-> <<>>, blkmap |-> <<>>,
           nelems |-> <<>>, offset |-> <<>>]

\* ------------------------------------------------------------ the plans
\* a plausible slip: the number of blocks by integer division
FakePlan_whole_blocks(p, partition_size) ==
    LET nb == p.size \div partition_size
    IN  [nblocks |-> nb,
         ncolors |-> 1,
         ncolblk |-> [col \in 0..0 |-> nb],
         blkmap  |-> [i \in 0..(nb - 1) |-> i],
         nelems  |-> [i \in 0..(nb - 1) |->
                        Min(partition_size, p.size - i * partition_size)],
         offset  |-> [i \in 0..(nb - 1) |-> p.offset + i * partition_size]]

\* FakePlan.__init__: the plan of a direct loop, one color, blocks in order
FakePlan(p, partition_size) ==
    LET nb == Ceil(p.size, partition_size)
    IN  [nblocks |-> nb,
         ncolors |-> 1,
         ncolblk |-> [col \in 0..0 |-> nb],
         blkmap  |-> [i \in 0..(nb - 1) |-> i],
         nelems  |-> [i \in 0..(nb - 1) |->
                        Min(partition_size, p.size - i * partition_size)],
         offset  |-> [i \in 0..(nb - 1) |-> p.offset + i * partition_size]]

\* the elements of block bid of plan pl
BlockElems(pl, bid) == pl.offset[bid]..(pl.offset[bid] + pl.nelems[bid] - 1)

\* the indirectly written locations of block bid
BlockWrites(pl, wt, bid) == UNION {wt[e] : e \in BlockElems(pl, bid)}

\* the blocks in the order of their colors, ties by block id: blkmap of a
\* colored plan, positions 0..nb-1
RECURSIVE SortByColor(_, _, _)
SortByColor(color, left, pos) ==
    IF left = {} THEN <<>>
    ELSE LET b == CHOOSE x \in left : \A y \in left :
                     \/ color[x] < color[y]
                     \/ color[x] = color[y] /\ x <= y
         IN  <<b>> \o SortByColor(color, left \ {b}, pos + 1)

\* plan.Plan(part, *args, partition_size=..., matrix_coloring=True, ...):
\* the same blocks as FakePlan, and every coloring of them in which two
\* blocks of one color write no common location; colors are 0..ncolors-1,
\* all used. The set of the plans the planner may return.
Plan(p, wt, partition_size) ==
    LET base == FakePlan(p, partition_size)
        nb   == base.nblocks
        B    == 0..(nb - 1)
        ok(color, nc) ==
            /\ \A col \in 0..(nc - 1) : \E b \in B : color[b] = col
            /\ \A b1, b2 \in B :
                  (b1 # b2 /\ color[b1] = color[b2]) =>
                  BlockWrites(base, wt, b1) \cap BlockWrites(base, wt, b2) = {}
        mk(color, nc) ==
            [nblocks |-> nb,
             ncolors |-> nc,
             ncolblk |-> [col \in 0..(nc - 1) |->
                            Cardinality({b \in B : color[b] = col})],
             blkmap  |-> LET s == SortByColor(color, B, 0)
                         IN  [i \in B |-> s[i + 1]],
             nelems  |-> base.nelems,
             offset  |-> base.offset]
    IN  UNION { { mk(color, nc) :
                    color \in { f \in [B -> 0..(nc - 1)] : ok(f, nc) } } :
                nc \in 1..nb }

\* a plausible slip: every loop gets the uncolored plan
_get_plan_uncolored(indirect, p, wt, partition_size) ==
    {FakePlan(p, partition_size)}

\* ParLoop._get_plan: the plans it may return
_get_plan(indirect, p, wt, partition_size) ==
    IF indirect
    THEN Plan(p, wt, partition_size)
    ELSE {FakePlan(p, partition_size)}

\* a plausible slip: the window never advances
next_boffset_stuck(bo, nb) == bo

\* boffset += nblocks
next_boffset(bo, nb) == bo + nb

\* the end of the wrapper's omp parallel region: every iteration of the
\* omp-for has been taken and every thread has left the region
wrapper_returns(td, rn) == td = {} /\ rn = {}

\* ------------------------------------------------------------ SpecPlan
Elems(p) == p.offset..(p.offset + p.size - 1)

\* the idle values of the variables of the other specifications
IdlePlan ==
    /\ part = [size |-> 0, offset |-> 0]
    /\ part_size = 1
    /\ is_indirect = FALSE
    /\ wtargets = <<>>
    /\ plan = NoPlan
    /\ pc = "idle"
    /\ c = 0
    /\ boffset = 0
    /\ todo = {}
    /\ running = {}
    /\ finished = {}
    /\ launches = <<>>
    /\ runs = <<>>

IdleInspector ==
    /\ exec_mode = "SEQUENTIAL"
    /\ deep = {}
    /\ the_chain = <<>>
    /\ the_mode = "soft"
    /\ cache = <<>>
    /\ reqs = <<>>
    /\ last = <<>>
    /\ nreq = 0

IdleAnalyzer ==
    /\ loop1 = <<>>
    /\ loop2 = <<>>
    /\ info = <<>>

IdleFusion ==
    /\ in_chain = <<>>
    /\ soft = <<>>
    /\ resoft = <<>>
    /\ hard = <<>>

IdleOrchestrator ==
    /\ orch_map = "None"
    /\ map_values = <<>>
    /\ executed = <<>>
    /\ orch_pc = [iter |-> 0, at |-> 0]
    /\ calls = <<>>
    /\ invoked = <<>>

IdleTile ==
    /\ tile_chain = <<>>
    /\ tile_pc = 0
    /\ insp_sets = {}
    /\ insp_maps = <<>>
    /\ insp_loops = <<>>
    /\ slope_insp = <<>>

IdleReduction ==
    /\ red_access = "None"
    /\ gbl = 0
    /\ gbl_before = 0
    /\ contribution = <<>>
    /\ owner = <<>>
    /\ tpc = <<>>
    /\ interm = <<>>
    /\ loaded = <<>>
    /\ critical = 0
    /\ block_runs = <<>>

InitPlan ==
    /\ IdleInspector
    /\ IdleAnalyzer
    /\ IdleFusion
    /\ IdleOrchestrator
    /\ IdleTile
    /\ IdleReduction
    /\ part \in [size : 0..MaxSize, offset : 0..MaxOffset]
    /\ part_size \in 1..MaxPartSize
    /\ is_indirect \in BOOLEAN
    /\ wtargets \in
         IF is_indirect
         THEN {[e \in Elems(part) |-> {m[e]}] : m \in [Elems(part) -> Targets]}
              \cup {[e \in Elems(part) |-> {}]}
         ELSE {[e \in Elems(part) |-> {}]}
    /\ plan = NoPlan
    /\ pc = "start"
    /\ c = 0
    /\ boffset = 0
    /\ todo = {}
    /\ running = {}
    /\ finished = {}
    /\ launches = <<>>
    /\ runs = <<>>

\* _compute, up to the color loop: nothing to do for an empty part
ComputeEmpty ==
    /\ pc = "start"
    /\ ~(part.size > 0)
    /\ pc' = "done"
    /\ UNCHANGED <<part, part_size, is_indirect, wtargets, plan, c, boffset,
                   todo, running, finished, launches, runs>>
    /\ UNCHANGED <<inspVars, anVars, fuVars, orVars, tiVars, reVars>>

\* _compute, up to the color loop: get the plan, boffset = 0
ComputePlan ==
    /\ pc = "start"
    /\ part.size > 0
    /\ plan' \in _get_plan(is_indirect, part, wtargets, part_size)
    /\ boffset' = 0
    /\ c' = 0
    /\ runs' = [b \in 0..(plan'.nblocks - 1) |-> 0]
    /\ pc' = "loop"
    /\ UNCHANGED <<part, part_size, is_indirect, wtargets, todo, running,
                   finished, launches>>
    /\ UNCHANGED <<inspVars, anVars, fuVars, orVars, tiVars, reVars>>

\* one iteration of `for c in range(plan.ncolors)`: fun(boffset, nblocks, ...)
\* is called and its parallel region opens on __b in [boffset, boffset+nblocks)
LaunchColor ==
    /\ pc = "loop"
    /\ c < plan.ncolors
    /\ LET nblocks == plan.ncolblk[c]
       IN  /\ todo' = boffset..(boffset + nblocks - 1)
           /\ launches' = Append(launches, <<c, boffset, nblocks>>)
    /\ pc' = "in_fun"
    /\ UNCHANGED <<part, part_size, is_indirect, wtargets, plan, c, boffset,
                   running, finished, runs>>
    /\ UNCHANGED <<inspVars, anVars, fuVars, orVars, tiVars, reVars>>

\* a thread takes iteration __b of the omp-for: bid = blkmap[__b]
BlockStart ==
    /\ pc = "in_fun"
    /\ \E b \in todo :
         /\ todo' = todo \ {b}
         /\ running' = running \cup {b}
         /\ runs' = [runs EXCEPT ![plan.blkmap[b]] = @ + 1]
    /\ UNCHANGED <<part, part_size, is_indirect, wtargets, plan, pc, c,
                   boffset, finished, launches>>
    /\ UNCHANGED <<inspVars, anVars, fuVars, orVars, tiVars, reVars>>

\* the thread has run the kernel on every element of its block
BlockEnd ==
    /\ pc = "in_fun"
    /\ \E b \in running :
         /\ running' = running \ {b}
         /\ finished' = finished \cup {b}
    /\ UNCHANGED <<part, part_size, is_indirect, wtargets, plan, pc, c,
                   boffset, todo, launches, runs>>
    /\ UNCHANGED <<inspVars, anVars, fuVars, orVars, tiVars, reVars>>

\* fun returns; boffset += nblocks and the color loop goes on
WrapperReturn ==
    /\ pc = "in_fun"
    /\ wrapper_returns(todo, running)
    /\ boffset' = next_boffset(boffset, plan.ncolblk[c])
    /\ c' = c + 1
    /\ pc' = "loop"
    /\ UNCHANGED <<part, part_size, is_indirect, wtargets, plan, todo,
                   running, finished, launches, runs>>
    /\ UNCHANGED <<inspVars, anVars, fuVars, orVars, tiVars, reVars>>

\* the color loop is over
ComputeDone ==
    /\ pc = "loop"
    /\ ~(c < plan.ncolors)
    /\ pc' = "done"
    /\ UNCHANGED <<part, part_size, is_indirect, wtargets, plan, c, boffset,
                   todo, running, finished, launches, runs>>
    /\ UNCHANGED <<inspVars, anVars, fuVars, orVars, tiVars, reVars>>

NextPlan ==
    \/ ComputeEmpty
    \/ ComputePlan
    \/ LaunchColor
    \/ BlockStart
    \/ BlockEnd
    \/ WrapperReturn
    \/ ComputeDone

SpecPlan == InitPlan /\ [][NextPlan]_vars

\* ------------------------------------------------------ SpecPlan: claims
\* the positions __b of blkmap that the launch of color col covers
PosOfColor(pl, col) ==
    SumTo(pl.ncolblk, col)..(SumTo(pl.ncolblk, col + 1) - 1)

\* the blocks executed by the launch of color col
BlocksOfColor(pl, col) == {pl.blkmap[p] : p \in PosOfColor(pl, col)}

\* the color whose launch covers position p
ColorOfPos(pl, p) ==
    CHOOSE col \in 0..(pl.ncolors - 1) : p \in PosOfColor(pl, col)

Planned == plan # NoPlan

C2_ColorByColor ==
    /\ \A i \in 1..Len(launches) :
          launches[i] = <<i - 1, SumTo(plan.ncolblk, i - 1), plan.ncolblk[i - 1]>>
    /\ Planned =>
          \A p \in running \cup finished :
              \A q \in 0..(plan.nblocks - 1) :
                  (\E col \in 0..(plan.ncolors - 1) :
                        /\ q \in PosOfColor(plan, col)
                        /\ col < ColorOfPos(plan, p))
                  => q \in finished
    /\ (pc = "done" /\ Planned) =>
          /\ Len(launches) = plan.ncolors
          /\ \A b \in 0..(plan.nblocks - 1) : runs[b] = 1
    /\ (pc = "done" /\ ~Planned) => launches = <<>>

\* a finished run of a plan of at least two colors, one of them with at
\* least two blocks
C2_Witness ==
    /\ pc = "done"
    /\ Planned
    /\ plan.ncolors >= 2
    /\ Len(launches) = plan.ncolors
    /\ \E col \in 0..(plan.ncolors - 1) : plan.ncolblk[col] >= 2

\* C17: for a loop without indirect or matrix arguments the plan has one
\* color and the least number of blocks of partition_size elements that
\* hold part.size elements; block i starts at part.offset +
\* i * partition_size and has min(partition_size, part.size -
\* i * partition_size) elements, so the blocks are non-empty, follow one
\* another without gap or overlap and cover the part exactly; for an empty
\* part no plan is made and nothing is launched.
C17_DirectPlanBlocks ==
    /\ (Planned /\ ~is_indirect) =>
          /\ plan.ncolors = 1
          /\ plan.ncolblk[0] = plan.nblocks
          /\ (plan.nblocks - 1) * part_size < part.size
          /\ part.size <= plan.nblocks * part_size
          /\ \A i \in 0..(plan.nblocks - 1) :
                /\ plan.blkmap[i] = i
                /\ plan.offset[i] = part.offset + i * part_size
                /\ plan.nelems[i] = Min(part_size, part.size - i * part_size)
                /\ plan.nelems[i] >= 1
                /\ i > 0 =>
                      plan.offset[i] = plan.offset[i - 1] + plan.nelems[i - 1]
          /\ \A e \in Elems(part) :
                Cardinality({i \in 0..(plan.nblocks - 1) :
                                 e \in BlockElems(plan, i)}) = 1
          /\ \A i \in 0..(plan.nblocks - 1) : BlockElems(plan, i) \subseteq Elems(part)
    /\ part.size = 0 => (plan = NoPlan /\ launches = <<>> /\ runs = <<>>)

\* a direct loop whose last block is shorter than the others, run to the
\* end in one launch
C17_Witness ==
    /\ Planned
    /\ ~is_indirect
    /\ pc = "done"
    /\ plan.nblocks = 2
    /\ plan.nelems[0] = 2
    /\ plan.nelems[1] = 1
    /\ Len(launches) = 1

\* ============================================================ the Inspector
\* Inspector._modes
_modes == {"soft", "hard", "tile", "only_tile", "only_omp"}

\* the modes a client may ask for: the legal ones and an unsupported one
AllModes == _modes \cup {"fast"}

lazy_trace_name == "lazy_trace"

\* the names of the chains: a user-declared loop chain, and the lazy trace
Names == {"chain", lazy_trace_name}

Sets == {"S1", "S2"}

\* the values of slope.get_exec_mode()
ExecModes == {"SEQUENTIAL", "OMP_MPI", "ONLY_MPI"}

\* the modes of execution that need deep halos (lines 321 and 817)
MpiModes == {"OMP_MPI", "ONLY_MPI"}

\* A loop chain, as far as inspect() depends on it: its length, the number
\* of groups soft fusion makes of it, the iteration sets of its loops, the
\* source and target sets of the maps its arguments use, and the pass that
\* produced it.
Chains ==
    { ch \in [nloops : 1..MaxLoops, ngroups : 1..MaxLoops,
              itersets : SUBSET Sets, mapsets : SUBSET Sets,
              stage : {"client"}] :
        /\ "S1" \in ch.itersets
        /\ Cardinality(ch.itersets) <= ch.ngroups
        /\ ch.ngroups <= ch.nloops }

\* Inspector._cache_key: the mode is part of the key of a user-declared
\* chain, and not of the key of a lazy trace
_cache_key(name, loop_chain, mode) ==
    IF name # lazy_trace_name
    THEN [name |-> name, mode |-> mode]
    ELSE [name |-> name, mode |-> "-"]

\* Schedule objects: the layers they wrap, innermost first, each with the
\* request (counted per key) that constructed it
PlainSchedule(serial) == <<[kind |-> "Plain", req |-> serial]>>
FusionSchedule(sched, serial) == Append(sched, [kind |-> "Fusion", req |-> serial])
HardFusionSchedule(sched, serial) ==
    Append(sched, [kind |-> "HardFusion", req |-> serial])
TilingSchedule(sched, serial) == Append(sched, [kind |-> "Tiling", req |-> serial])

Kinds(sched) == [i \in 1..Len(sched) |-> sched[i].kind]

\* Cached.__new__, make_obj: a fresh object, not initialized, no attribute
\* set (an attribute is <<>> when absent and <<value>> when set)
NewObject ==
    [_initialized |-> FALSE, _name |-> <<>>, _loop_chain |-> <<>>,
     _mode |-> <<>>, _options |-> <<>>, _schedule |-> <<>>, _ninsps |-> <<>>]

\* a plausible slip: __init__ forgets that a built Inspector is in cache
init_always(obj, name, loop_chain, mode, serial) ==
    [obj EXCEPT !._name = <<name>>,
                !._loop_chain = <<loop_chain>>,
                !._mode = <<mode>>,
                !._options = <<"options">>,
                !._schedule = PlainSchedule(serial)]

\* Inspector.__init__
__init__(obj, name, loop_chain, mode, serial) ==
    IF obj._initialized THEN obj
    ELSE [obj EXCEPT !._name = <<name>>,
                     !._loop_chain = <<loop_chain>>,
                     !._mode = <<mode>>,
                     !._options = <<"options">>,
                     !._schedule = PlainSchedule(serial)]

\* del self._name, self._loop_chain, self._mode, self._options
DelBuildState(obj) ==
    [obj EXCEPT !._name = <<>>, !._loop_chain = <<>>, !._mode = <<>>,
                !._options = <<>>]

\* a plausible slip: only_omp deferred like the tiling modes
skip_modes_with_omp == {"tile", "only_tile", "only_omp"}

\* the modes whose inspection _heuristic_skip_inspection defers
skip_modes == {"tile", "only_tile"}

\* Inspector._heuristic_skip_inspection: the object with _ninsps counted
\* up, and the decision
_heuristic_skip_inspection(obj) ==
    LET n == IF obj._ninsps # <<>> THEN obj._ninsps[1] + 1 ELSE 1
    IN  [obj  |-> [obj EXCEPT !._ninsps = <<n>>],
         skip |-> (obj._mode[1] \in skip_modes /\ n < 3)]

\* Inspector._soft_fuse: a FusionSchedule around the schedule so far, and
\* the chain of the fused loops, one per group
_soft_fuse(obj, serial) ==
    LET ch == obj._loop_chain[1]
    IN  [obj EXCEPT !._schedule = FusionSchedule(@, serial),
                    !._loop_chain =
                        <<[ch EXCEPT !.nloops = ch.ngroups, !.stage = "soft"]>>]

\* Inspector._hard_fuse, the search loop: with a chain of one loop the inner
\* for never runs, so `base_loop_index += i` reads an unbound local
_hard_fuse_raises(obj) == obj._loop_chain[1].nloops = 1

\* the chains hard fusion may make of ch: nothing fused, or the loops over
\* one set fused into loops over another; the set stays the target of the
\* fusion map
HardFusedChains(ch) ==
    {[ch EXCEPT !.stage = "hard"]} \cup
    { [ch EXCEPT !.stage = "hard", !.itersets = @ \ {s}, !.nloops = @ - 1] :
        s \in {x \in ch.itersets \cap ch.mapsets :
                   Cardinality(ch.itersets) >= 2} }

\* Inspector._hard_fuse when it does not raise, with the chain it produced
_hard_fuse(obj, serial, fused_chain) ==
    [obj EXCEPT !._schedule = HardFusionSchedule(@, serial),
                !._loop_chain = <<fused_chain>>]

\* Inspector._tile, lines 321-324: no tiling under MPI unless every loop's
\* iteration set has deep halos
_tile_skips(obj) ==
    /\ exec_mode \in MpiModes
    /\ ~(\A s \in obj._loop_chain[1].itersets : s \in deep)

\* create_slope_set, line 824: under MPI it reads _deep_size of the set it
\* is given; _tile hands it every iteration set and the source and target
\* set of every map
create_slope_set_raises(obj) ==
    /\ exec_mode \in MpiModes
    /\ \E s \in obj._loop_chain[1].itersets \cup obj._loop_chain[1].mapsets :
          s \notin deep

\* Inspector._tile: the object after it, the error it raised ("none" when
\* it returned) and whether it logged the warning
_tile(obj, serial, toolchain_ok) ==
    IF _tile_skips(obj)
    THEN [obj |-> obj, error |-> "none", warned |-> TRUE]
    ELSE IF create_slope_set_raises(obj)
    THEN [obj |-> obj, error |-> "AttributeError", warned |-> FALSE]
    ELSE IF ~toolchain_ok
    THEN [obj |-> obj, error |-> "CompilationError", warned |-> FALSE]
    ELSE [obj |-> [obj EXCEPT !._schedule = TilingSchedule(@, serial)],
          error |-> "none", warned |-> FALSE]

run_soft(mode) == mode \in {"soft", "hard", "tile"}

\* a plausible slip: hard fusion left out of the mode `hard`
run_hard_when_tiling(mode) == mode \in {"tile"}

run_hard(mode) == mode \in {"hard", "tile"}
run_tile(mode) == mode \in {"tile", "only_tile", "only_omp"}

\* what a call of inspect() leaves: the object, how the call ended, the
\* error raised, the passes called in order, the schedule returned (<<>>
\* when it raised), whether the halo warning was logged, and for each pass
\* called the chain it read from self._loop_chain and the chain it left
\* there
Outcome(obj, result, error, passes, ret, warned, trace) ==
    [obj |-> obj, result |-> result, error |-> error, passes |-> passes,
     ret |-> ret, warned |-> warned, trace |-> trace]

\* one call of a pass: the chain in self._loop_chain before and after it
PassCall(pass, before, after) ==
    [pass |-> pass, read |-> before._loop_chain[1],
     left |-> after._loop_chain[1]]

\* a plausible slip: the mode is not checked
mode_is_legal_unchecked(mode) == TRUE

\* `self.mode not in Inspector._modes` raises
mode_is_legal(mode) == mode \in _modes

\* a plausible slip: the Inspector is marked before the passes have run
mark_when_raised_too(error) == TRUE

\* self._initialized = True is reached only when no pass raised
mark_when(error) == error = "none"

\* Inspector.inspect, lines 148-163, from the object after the heuristic:
\* the set of its outcomes (hard fusion's result depends on the loops)
Build(obj0, serial, toolchain_ok) ==
    LET mode == obj0._mode[1]
        o1 == IF run_soft(mode) THEN _soft_fuse(obj0, serial) ELSE obj0
        p1 == IF run_soft(mode) THEN <<"soft">> ELSE <<>>
        hardRaises == run_hard(mode) /\ _hard_fuse_raises(o1)
        p2 == IF run_hard(mode) THEN Append(p1, "hard") ELSE p1
        t1 == IF run_soft(mode) THEN <<PassCall("soft", obj0, o1)>> ELSE <<>>
        O2 == IF ~run_hard(mode) THEN {o1}
              ELSE {_hard_fuse(o1, serial, fc) :
                        fc \in HardFusedChains(o1._loop_chain[1])}
        after(o2) ==
            LET t  == _tile(o2, serial, toolchain_ok)
                o3 == IF run_tile(mode) THEN t.obj ELSE o2
                p3 == IF run_tile(mode) THEN Append(p2, "tile") ELSE p2
                t2 == IF run_hard(mode)
                      THEN Append(t1, PassCall("hard", o1, o2)) ELSE t1
                t3 == IF run_tile(mode)
                      THEN Append(t2, PassCall("tile", o2, o3)) ELSE t2
                err == IF run_tile(mode) THEN t.error ELSE "none"
                wrn == run_tile(mode) /\ t.warned
            IN  IF err = "none"
                THEN Outcome(DelBuildState([o3 EXCEPT !._initialized = mark_when(err)]),
                             "built", "none", p3, o3._schedule, wrn, t3)
                ELSE Outcome([o3 EXCEPT !._initialized = mark_when(err)],
                             "raised", err, p3, <<>>, wrn, t3)
    IN  IF hardRaises
        THEN {Outcome([o1 EXCEPT !._initialized = mark_when("UnboundLocalError")],
                      "raised", "UnboundLocalError", p2, <<>>, FALSE,
                      Append(t1, PassCall("hard", o1, o1)))}
        ELSE {after(o2) : o2 \in O2}

\* Inspector.inspect: the set of its outcomes
inspect(obj, serial, toolchain_ok) ==
    IF obj._initialized
    THEN {Outcome(obj, "cached", "none", <<>>, obj._schedule, FALSE, <<>>)}
    ELSE LET h == _heuristic_skip_inspection(obj)
         IN  IF h.skip
             THEN {Outcome(DelBuildState(h.obj), "skipped", "none", <<>>,
                           h.obj._schedule, FALSE, <<>>)}
             ELSE IF ~mode_is_legal(h.obj._mode[1])
             THEN {Outcome(h.obj, "raised", "RuntimeError", <<>>, <<>>, FALSE, <<>>)}
             ELSE Build(h.obj, serial, toolchain_ok)

\* ------------------------------------------------------ SpecInspector
InitInspector ==
    /\ IdlePlan
    /\ IdleAnalyzer
    /\ IdleFusion
    /\ IdleOrchestrator
    /\ IdleTile
    /\ IdleReduction
    /\ exec_mode \in ExecModes
    /\ deep \in SUBSET Sets
    /\ the_chain \in Chains
    /\ the_mode \in AllModes
    /\ cache = <<>>
    /\ reqs = <<>>
    /\ last = <<>>
    /\ nreq = 0

\* f with key k set to v, k added to its domain when new
Put(f, k, v) == [x \in DOMAIN f \cup {k} |-> IF x = k THEN v ELSE f[x]]

\* One inspection request of the client, for its declared chain or for the
\* lazy trace: Inspector(name, loop_chain, mode=mode, ...) finds or makes
\* the object of the key (Cached.__new__), __init__ runs on it, then
\* inspect() is called. The toolchain may fail to build the generated
\* inspector.
Request ==
    /\ nreq < MaxReqs
    /\ \E name \in Names, toolchain_ok \in BOOLEAN :
         LET mode   == the_mode
             key    == _cache_key(name, the_chain, mode)
             hit    == key \in DOMAIN cache
             before == IF hit THEN reqs[key]
                       ELSE [count |-> 0, mode |-> mode, error |-> "none"]
             serial == before.count + 1
             obj0   == IF hit THEN cache[key] ELSE NewObject
             obj1   == __init__(obj0, name, the_chain, mode, serial)
         IN  /\ \E out \in inspect(obj1, serial, toolchain_ok) :
                  /\ cache' = Put(cache, key, out.obj)
                  /\ reqs' = Put(reqs, key,
                                 [count |-> before.count + 1, mode |-> mode,
                                  error |-> out.error])
                  /\ last' = <<[serial |-> nreq + 1, key |-> key, mode |-> mode,
                                count |-> serial,
                                was_built |-> obj0._initialized,
                                had |-> obj0._schedule,
                                prev_error |-> before.error,
                                toolchain_ok |-> toolchain_ok,
                                result |-> out.result, error |-> out.error,
                                passes |-> out.passes, ret |-> out.ret,
                                warned |-> out.warned,
                                trace |-> out.trace]>>
             /\ nreq' = nreq + 1
    /\ UNCHANGED <<exec_mode, deep, the_chain, the_mode>>
    /\ UNCHANGED <<planVars, anVars, fuVars, orVars, tiVars, reVars>>

NextInspector == Request

SpecInspector == InitInspector /\ [][NextInspector]_vars

\* ------------------------------------------------- SpecInspector: claims
Requested == last # <<>>

\* the last request, and the Inspector object it used
L == last[1]
LObj == cache[L.key]

\* the errors _tile raises
TileErrors == {"CompilationError", "AttributeError"}

\* the first pass a build in this mode calls
FirstPass(mode) == IF run_soft(mode) THEN "soft" ELSE "tile"

\* C3: once an Inspector is built (_initialized), it stays built and keeps
\* its Schedule object, and every later request with its fingerprint gets
\* that very Schedule back without any pass being run.
C3_BuiltIsFinal ==
    [][\A k \in DOMAIN cache :
          cache[k]._initialized =>
              /\ k \in DOMAIN cache'
              /\ cache'[k] = cache[k]
              /\ (last' # last /\ last'[1].key = k) =>
                    /\ last'[1].result = "cached"
                    /\ last'[1].passes = <<>>
                    /\ last'[1].ret = cache[k]._schedule]_vars

\* a request answered from a built Inspector with a fused schedule
C3_Witness ==
    /\ Requested
    /\ L.result = "cached"
    /\ Len(L.ret) >= 2
    /\ LObj._initialized

\* C4: under mode tile the first and second request for a fingerprint
\* return the trivial unfused Schedule without running a pass and leave the
\* Inspector unbuilt; the third request (the toolchain working) runs the
\* tiling pass and marks the Inspector built.
C4_ThirdTileRequestBuilds ==
    (Requested /\ L.mode = "tile") =>
        /\ L.count \in {1, 2} =>
              /\ L.result = "skipped"
              /\ Kinds(L.ret) = <<"Plain">>
              /\ L.passes = <<>>
              /\ ~LObj._initialized
        /\ (L.count = 3 /\ L.toolchain_ok) =>
              /\ \E i \in 1..Len(L.passes) : L.passes[i] = "tile"
              /\ LObj._initialized

\* C5, as amended: the deferral applies to exactly tile and only_tile. A
\* request to an unbuilt Inspector is answered with the trivial unfused
\* Schedule, no pass run and the Inspector left unbuilt, iff the mode is
\* tile or only_tile and it is the first or second request for the
\* fingerprint; in every other legal mode (soft, hard, only_omp) the first
\* request already starts the build.
C5_DeferralModes ==
    (Requested /\ ~L.was_built) =>
        /\ (L.result = "skipped") <=>
              (L.mode \in {"tile", "only_tile"} /\ L.count < 3)
        /\ L.result = "skipped" =>
              /\ Kinds(L.ret) = <<"Plain">>
              /\ L.passes = <<>>
              /\ ~LObj._initialized
        /\ (L.result # "skipped" /\ L.mode \in _modes) =>
              /\ L.passes # <<>>
              /\ L.passes[1] = FirstPass(L.mode)

\* a first request under only_omp that built
C5_Witness ==
    /\ Requested
    /\ L.mode = "only_omp"
    /\ L.count = 1
    /\ L.result = "built"
    /\ LObj._initialized

\* C5 as claimed: the first two requests are deferred for tile, only_tile
\* and only_omp, and the third or a later one builds; for soft and hard the
\* first request starts the build.
C5_Original ==
    (Requested /\ ~L.was_built) =>
        /\ L.mode \in {"tile", "only_tile", "only_omp"} =>
              ((L.result = "skipped") <=> (L.count < 3))
        /\ L.mode \in {"soft", "hard"} =>
              (L.result # "skipped" /\ L.passes # <<>>)

\* C6: when a build fails (an error raised from _tile among them) the
\* request raises and the Inspector stays unbuilt; the request that follows
\* a failed tiling is not answered from the cache: it runs the build again
\* from its first pass, and a Schedule it returns was made by that request
\* alone, from a fresh PlainSchedule.
C6_FailedBuildNotCached ==
    Requested =>
        /\ L.result = "raised" =>
              /\ ~LObj._initialized
              /\ L.ret = <<>>
        /\ L.prev_error \in TileErrors =>
              /\ L.result \in {"built", "raised"}
              /\ L.passes # <<>>
              /\ L.passes[1] = FirstPass(L.mode)
              /\ \A i \in 1..Len(L.ret) : L.ret[i].req = L.count

\* a build that succeeded on the request after the toolchain had failed
C6_Witness ==
    /\ Requested
    /\ L.prev_error = "CompilationError"
    /\ L.result = "built"
    /\ Kinds(L.ret)[Len(L.ret)] = "Tiling"

\* C7: inspect() with a mode outside Inspector._modes raises before any
\* pass runs, returns nothing and leaves the Inspector unbuilt.
C7_IllegalModeRaises ==
    (Requested /\ L.mode \notin _modes) =>
        /\ L.result = "raised"
        /\ L.error = "RuntimeError"
        /\ L.passes = <<>>
        /\ L.ret = <<>>
        /\ ~LObj._initialized

\* a second request with an unsupported mode, raising like the first
C7_Witness ==
    /\ Requested
    /\ L.mode \notin _modes
    /\ L.count = 2
    /\ L.result = "raised"

\* C8: under mode tile, with an execution mode that needs deep halos and a
\* set of the chain (an iteration set, or the source or target set of a
\* map) that has none, a request that is not deferred does not fail: it
\* logs the warning, skips tiling and returns the soft/hard-fused Schedule.
\* (Stated for chains that leave hard fusion at least two loops.)
C8_MissingHaloSkipsTiling ==
    (/\ Requested
     /\ L.mode = "tile"
     /\ L.result # "skipped"
     /\ ~L.was_built
     /\ the_chain.ngroups >= 2
     /\ exec_mode \in MpiModes
     /\ \E s \in the_chain.itersets \cup the_chain.mapsets : s \notin deep) =>
        /\ L.result = "built"
        /\ L.warned
        /\ Kinds(L.ret) = <<"Plain", "Fusion", "HardFusion">>

\* the passes the mode selects, in the order soft fusion, hard fusion,
\* tiling
SelectedPasses(mode) ==
    (IF mode \in {"soft", "hard", "tile"} THEN <<"soft">> ELSE <<>>)
    \o (IF mode \in {"hard", "tile"} THEN <<"hard">> ELSE <<>>)
    \o (IF mode \in {"tile", "only_tile", "only_omp"} THEN <<"tile">> ELSE <<>>)

IsPrefix(p, q) == Len(p) <= Len(q) /\ \A i \in 1..Len(p) : p[i] = q[i]

\* C18: a build calls the passes the mode selects and no others, in the
\* order soft fusion, hard fusion, tiling (all of them when it completes,
\* and up to the pass that raised when it does not); the first pass reads
\* the client's chain and every later pass reads the chain the pass before
\* it left, so hard fusion works on soft fusion's chain and tiling on hard
\* fusion's.
C18_PassesByModeInOrder ==
    Requested =>
       /\ L.result = "built" => L.passes = SelectedPasses(L.mode)
       /\ (L.result = "raised" /\ L.error # "RuntimeError") =>
             /\ L.passes # <<>>
             /\ IsPrefix(L.passes, SelectedPasses(L.mode))
       /\ L.result \in {"cached", "skipped"} => L.passes = <<>>
       /\ Len(L.trace) = Len(L.passes)
       /\ \A i \in 1..Len(L.trace) :
             /\ L.trace[i].pass = L.passes[i]
             /\ i = 1 => L.trace[i].read = the_chain
             /\ i > 1 => L.trace[i].read = L.trace[i - 1].left
             /\ L.trace[i].pass = "hard" => L.trace[i].read.stage = "soft"
             /\ (L.trace[i].pass = "tile" /\ i > 1) =>
                   L.trace[i].read.stage = "hard"

\* a build in mode tile that ran the three passes, where hard fusion fused
\* two loops and tiling read the chain of the one loop left
C18_Witness ==
    /\ Requested
    /\ L.mode = "tile"
    /\ L.result = "built"
    /\ L.passes = <<"soft", "hard", "tile">>
    /\ L.trace[1].read = the_chain
    /\ L.trace[2].left.nloops < L.trace[2].read.nloops
    /\ L.trace[3].read = L.trace[2].left

\* ======================================================== loops_analyzer
\* the access modes (pyop2.base)
Access == {"READ", "WRITE", "RW", "INC", "MIN", "MAX"}

Dats == 1..NumDats

\* An argument of a loop: the Dat it accesses, how, and directly
\* (map is None, _is_direct) or through a map (_is_indirect).
Args == [data : Dats, access : Access, kind : {"direct", "indirect"}]

\* the sets of at most n arguments
RECURSIVE ArgSets(_)
ArgSets(n) ==
    IF n = 0 THEN {{}}
    ELSE LET smaller == ArgSets(n - 1)
         IN  smaller \cup {A \cup {a} : A \in smaller, a \in Args}

\* A loop: its iteration space and its arguments
Loops == [it_space : Sets, args : ArgSets(MaxArgs)]

_is_direct(a) == a.kind = "direct"
_is_indirect(a) == a.kind = "indirect"

\* lines 500-502
reads(l) == {a \in l.args : a.access \in {"READ", "RW"}}
writes(l) == {a \in l.args : a.access \in {"RW", "WRITE", "MIN", "MAX"}}
incs(l) == {a \in l.args : a.access \in {"INC"}}

\* lines 529-542
all_reads(l) == {a.data : a \in reads(l)}
all_writes(l) == {a.data : a \in writes(l)}
all_incs(l) == {a.data : a \in incs(l)}
all_inc_writes(l) == {a.data : a \in incs(l) \cup writes(l)}

dir_reads(l) == {a.data : a \in {x \in reads(l) : _is_direct(x)}}
dir_writes(l) == {a.data : a \in {x \in writes(l) : _is_direct(x)}}
dir_incs(l) == {a.data : a \in {x \in incs(l) : _is_direct(x)}}
dir_inc_writes(l) ==
    {a.data : a \in {x \in incs(l) \cup writes(l) : _is_direct(x)}}

ind_reads(l) == {a.data : a \in {x \in reads(l) : _is_indirect(x)}}
ind_writes(l) == {a.data : a \in {x \in writes(l) : _is_indirect(x)}}
ind_incs(l) == {a.data : a \in {x \in incs(l) : _is_indirect(x)}}
ind_inc_writes(l) ==
    {a.data : a \in {x \in incs(l) \cup writes(l) : _is_indirect(x)}}

\* a plausible slip: the test for a common increment left out
pure_iai_no_common_inc(l1, l2) ==
    /\ all_writes(l1) \cap all_reads(l2) = {}
    /\ all_reads(l1) \cap all_writes(l2) = {}

\* lines 568-572: the fourth conjunct repeats the second
pure_iai(l1, l2) ==
    /\ all_incs(l1) \cap all_incs(l2) # {}
    /\ all_writes(l1) \cap all_reads(l2) = {}
    /\ all_reads(l1) \cap all_writes(l2) = {}
    /\ all_writes(l1) \cap all_reads(l2) = {}

\* loops_analyzer(loop1, loop2): the dictionary it returns
loops_analyzer(l1, l2) ==
    LET homogeneous   == l1.it_space = l2.it_space
        heterogeneous == ~homogeneous
        direct_raw == homogeneous /\ dir_inc_writes(l1) \cap dir_reads(l2) # {}
        direct_war == homogeneous /\ dir_reads(l1) \cap dir_inc_writes(l2) # {}
        direct_waw ==
            homogeneous /\ dir_inc_writes(l1) \cap dir_inc_writes(l2) # {}
        indirect_raw ==
            \/ homogeneous /\ ind_inc_writes(l1) \cap ind_reads(l2) # {}
            \/ heterogeneous /\ all_writes(l1) \cap all_reads(l2) # {}
        indirect_war ==
            \/ homogeneous /\ ind_reads(l1) \cap ind_inc_writes(l2) # {}
            \/ heterogeneous /\ all_reads(l1) \cap all_writes(l2) # {}
        indirect_waw ==
            \/ homogeneous /\ ind_inc_writes(l1) \cap ind_inc_writes(l2) # {}
            \/ heterogeneous /\ all_writes(l1) \cap all_writes(l2) # {}
    IN  [homogeneous   |-> homogeneous,
         heterogeneous |-> heterogeneous,
         direct_raw    |-> direct_raw,
         direct_war    |-> direct_war,
         direct_waw    |-> direct_waw,
         direct_w      |-> (direct_raw \/ direct_war \/ direct_waw),
         indirect_raw  |-> indirect_raw,
         indirect_war  |-> indirect_war,
         indirect_waw  |-> indirect_waw,
         indirect_w    |-> (indirect_raw \/ indirect_war \/ indirect_waw),
         pure_iai      |-> pure_iai(l1, l2)]

\* ------------------------------------------------------- SpecAnalyzer
InitAnalyzer ==
    /\ IdlePlan
    /\ IdleInspector
    /\ IdleFusion
    /\ IdleOrchestrator
    /\ IdleTile
    /\ IdleReduction
    /\ loop1 \in Loops
    /\ loop2 \in Loops
    /\ info = <<>>

\* info = loops_analyzer(loop1, loop2)
Analyze ==
    /\ info = <<>>
    /\ info' = <<loops_analyzer(loop1, loop2)>>
    /\ UNCHANGED <<loop1, loop2>>
    /\ UNCHANGED <<planVars, inspVars, fuVars, orVars, tiVars, reVars>>

NextAnalyzer == Analyze

SpecAnalyzer == InitAnalyzer /\ [][NextAnalyzer]_vars

\* -------------------------------------------------- SpecAnalyzer: claims
Analyzed == info # <<>>

\* the data a loop reads, and the data it writes when an INC counts as a
\* write, over all its arguments
DataRead(l) == {a.data : a \in {x \in l.args : x.access \in {"READ", "RW"}}}
DataWritten(l) == {a.data : a \in {x \in l.args : x.access # "READ"}}
DataIncremented(l) == {a.data : a \in {x \in l.args : x.access = "INC"}}

\* C9: pure_iai is true iff the loops increment a common datum and no datum
\* read by one of them is written by the other, an INC counting as a write
\* and all arguments, direct and indirect, taken into account.
C9_PureIaiNoReadWriteOverlap ==
    Analyzed =>
        (info[1].pure_iai <=>
            /\ DataIncremented(loop1) \cap DataIncremented(loop2) # {}
            /\ DataRead(loop1) \cap DataWritten(loop2) = {}
            /\ DataWritten(loop1) \cap DataRead(loop2) = {})

\* C10: for a homogeneous pair in which loop1 has only READ arguments and
\* loop2 only INC arguments, both accessing a common dataset, whether
\* directly or through a map, a write-after-read hazard is reported
\* (direct_war or indirect_war) and pure_iai is false.
C10_ReadThenIncIsWar ==
    (/\ Analyzed
     /\ loop1.it_space = loop2.it_space
     /\ loop1.args # {}
     /\ loop2.args # {}
     /\ \A a \in loop1.args : a.access = "READ"
     /\ \A a \in loop2.args : a.access = "INC"
     /\ \E a \in loop1.args, b \in loop2.args : a.data = b.data) =>
        /\ info[1].direct_war \/ info[1].indirect_war
        /\ ~info[1].pure_iai

\* the data the arguments of a loop reference
DataOf(l) == {a.data : a \in l.args}

\* the hazard keys of the dictionary loops_analyzer returns
HazardKeys ==
    {"direct_raw", "direct_war", "direct_waw", "direct_w",
     "indirect_raw", "indirect_war", "indirect_waw", "indirect_w", "pure_iai"}

\* C11: for loops whose arguments reference disjoint data, over the same
\* iteration space or not, loops_analyzer returns its dictionary with
\* every hazard key false, pure_iai included.
C11_DisjointDataNoHazard ==
    (Analyzed /\ DataOf(loop1) \cap DataOf(loop2) = {}) =>
        /\ DOMAIN info[1] = HazardKeys \cup {"homogeneous", "heterogeneous"}
        /\ \A k \in HazardKeys : ~info[1][k]

\* two loops over different sets, each writing and incrementing its own data
C11_Witness ==
    /\ Analyzed
    /\ loop1.it_space # loop2.it_space
    /\ DataOf(loop1) # {}
    /\ DataOf(loop2) # {}
    /\ DataOf(loop1) \cap DataOf(loop2) = {}
    /\ \E a \in loop1.args : a.access = "INC"
    /\ \E a \in loop2.args : a.access = "INC"
    /\ info[1].heterogeneous

\* ====================================================== the fusion passes
\* The maps of the mesh: M12 from S1 to S2, M22 from S2 to itself; none of
\* them is made of factors.
MapNames == {"M12", "M22", "M32"}
NoMap == "None"

\* the sets the loops of a chain iterate over; S3 has maps to S2 and no
\* Dat of its own
ChainSets == Sets \cup {"S3"}

iterset(m) == IF m = "M12" THEN "S1" ELSE IF m = "M22" THEN "S2" ELSE "S3"
toset(m) == "S2"
arity(m) == IF m = "M12" THEN 3 ELSE 2

\* the set a Dat is defined on: the first Dat on S1, the others on S2
DatSet(d) == IF d = 1 THEN "S1" ELSE "S2"

\* the access modes of the loops of a chain (RW, MIN and MAX go through
\* the passes as a READ with a WRITE, and as WRITE)
ChainAccess == {"READ", "WRITE", "INC"}

\* the Dats the loops of a chain of n loops may access
ChainDats(n) == IF n <= 2 THEN 1..NumPairDats ELSE Dats

\* the arguments a loop over set s may have, the Dats being D: a Dat of s
\* directly, or a Dat of the target of a map from s through that map
ChainArgs(D, s) ==
    { a \in [data : D, access : ChainAccess, map : MapNames \cup {NoMap},
             kind : {"direct", "indirect"}] :
        /\ a.kind = IF a.map = NoMap THEN "direct" ELSE "indirect"
        /\ a.map # NoMap => iterset(a.map) = s
        /\ DatSet(a.data) = IF a.map = NoMap THEN s ELSE toset(a.map) }

\* the sets of at most n arguments of a loop over s
RECURSIVE ChainArgSets(_, _, _)
ChainArgSets(D, s, n) ==
    IF n = 0 THEN {{}}
    ELSE LET smaller == ChainArgSets(D, s, n - 1)
         IN  smaller \cup {A \cup {a} : A \in smaller, a \in ChainArgs(D, s)}

\* "// Fused kernel:", the comment put before each appended body
FusedMarker == [kernel |-> 0, line |-> 0]

\* the kernel of the i-th loop of the client's chain: its name and the
\* statements of its body
ClientKernel(i) ==
    [name |-> <<i>>,
     body |-> [n \in 1..KernelStmts |-> [kernel |-> i, line |-> n]]]

\* what a loop of the client may be, but for its kernel
ClientLoops(D) ==
    UNION { [it_space : {s}, args : ChainArgSets(D, s, MaxArgs)] : s \in ChainSets }

\* the chain of the loops sh[1], sh[2], ..., each with its own kernel
ClientChain(sh) ==
    [i \in DOMAIN sh |->
        [it_space |-> sh[i].it_space, args |-> sh[i].args,
         kernel |-> ClientKernel(i)]]

\* ------------------------------------------------------------ soft fusion
\* a plausible slip: the appended body put in front of the base body
extend_body_in_front(base_body, fuse_body) ==
    fuse_body \o <<FusedMarker>> \o base_body

\* line 601: base_fundecl.body.extend([FlatBlock(marker)] + fuse_fundecl.body)
extend_body(base_body, fuse_body) ==
    base_body \o <<FusedMarker>> \o fuse_body

\* build_soft_fusion_kernel, the for loop over fuse_asts from the k-th loop
\* on, with the name and the body of base_fundecl so far
RECURSIVE fuse_asts_from(_, _, _, _)
fuse_asts_from(loops, k, name, body) ==
    IF k > Len(loops) THEN [name |-> name, body |-> body]
    ELSE fuse_asts_from(loops, k + 1, name \o loops[k].kernel.name,
                        extend_body(body, loops[k].kernel.body))

\* a plausible slip: the first kernel treated like the appended ones
build_soft_fusion_kernel_all_appended(loops, loop_chain_index) ==
    fuse_asts_from(loops, 1, <<>>, <<>>)

\* build_soft_fusion_kernel(loops, loop_chain_index): the fused Kernel; the
\* base is a copy of the first loop's kernel
build_soft_fusion_kernel(loops, loop_chain_index) ==
    fuse_asts_from(loops, 2, loops[1].kernel.name, loops[1].kernel.body)

\* a plausible slip: the next loop is compared with the first of the group
fusing_first(fusing) == fusing[1]

\* line 200: base_loop = fusing[-1]
fusing_last(fusing) == fusing[Len(fusing)]

\* a plausible slip: direct hazards close the group as well
cannot_fuse_any_hazard(i) == i.heterogeneous \/ i.indirect_w \/ i.direct_w

\* line 202: the test that closes the current group
cannot_fuse(i) == i.heterogeneous \/ i.indirect_w

\* a plausible slip: the size of the group recorded, not where it ends
handled_entry_group_size(fusing, handled, offset) ==
    [kernel |-> build_soft_fusion_kernel(fusing, Len(handled)),
     index |-> Len(handled), offset |-> Len(fusing)]

\* lines 205-206 and 214-215: (fused_kernel, offset), with the position
\* of the group handed to build_soft_fusion_kernel
handled_entry(fusing, handled, offset) ==
    [kernel |-> build_soft_fusion_kernel(fusing, Len(handled)),
     index |-> Len(handled), offset |-> offset]

\* Inspector._soft_fuse, the for loop from the j-th loop of the chain on
\* (loop_chain[j] is `loop`, and enumerate's i is j - 2)
RECURSIVE soft_scan(_, _, _, _)
soft_scan(lc, j, handled, fusing) ==
    IF j > Len(lc)
    THEN IF fusing # <<>>
         THEN Append(handled, handled_entry(fusing, handled, Len(lc)))
         ELSE handled
    ELSE LET loop      == lc[j]
             base_loop == fusing_last(fusing)
             i         == loops_analyzer(base_loop, loop)
         IN  IF cannot_fuse(i)
             THEN soft_scan(lc, j + 1,
                            Append(handled, handled_entry(fusing, handled, j - 1)),
                            <<loop>>)
             ELSE soft_scan(lc, j + 1, handled, Append(fusing, loop))

\* the list `handled` that _soft_fuse builds for a chain
soft_handled(lc) == soft_scan(lc, 2, <<>>, <<lc[1]>>)

\* FusionSchedule.__call__: the loop that replaces the loops
\* lc[from + 1 .. to]; it iterates over their set with their arguments and
\* runs the fused kernel
FusedLoop(lc, from, to, kernel) ==
    [it_space |-> lc[from + 1].it_space,
     args |-> UNION {lc[k].args : k \in (from + 1)..to},
     kernel |-> kernel]

\* self._schedule(loop_chain) for the FusionSchedule made of `handled`
FusedChain(lc, handled) ==
    [g \in 1..Len(handled) |->
        FusedLoop(lc, IF g = 1 THEN 0 ELSE handled[g - 1].offset,
                  handled[g].offset, handled[g].kernel)]

\* Inspector._soft_fuse on a chain: the list handed to FusionSchedule and
\* the new self._loop_chain
soft_fuse(lc) ==
    LET handled == soft_handled(lc)
    IN  [handled |-> handled, loop_chain |-> FusedChain(lc, handled)]

\* ------------------------------------------------------------ hard fusion
\* a plausible slip: the fuse calls are not guarded
orchestrator_unguarded(fusion_map) ==
    <<[call |-> "base", guarded_by |-> -1]>> \o
    [n \in 1..arity(fusion_map) |-> [call |-> "fuse", guarded_by |-> -1]]

\* a plausible slip: the fuse loop's arguments are not looked at
fuse_has_direct_unchecked(fuse_loop) == FALSE

\* line 287: any(a._is_direct for a in fuse_loop.args)
fuse_has_direct(fuse_loop) == \E a \in fuse_loop.args : _is_direct(a)

\* lines 258-262: the INC arguments of the two loops whose data is in
\* common_inc_dats, which is the union of the data either loop increments
common_incs(base_loop, loop) ==
    LET common_inc_dats == all_incs(base_loop) \cup all_incs(loop)
    IN  {a \in incs(base_loop) \cup incs(loop) : a.data \in common_inc_dats}

\* a plausible slip: a map between the two sets taken in either direction
fusion_maps_unoriented(base_loop, loop, set1, set2) ==
    LET maps == {a.map : a \in {x \in common_incs(base_loop, loop) :
                                    _is_indirect(x)}}
    IN  {m \in maps : {set1, set2} = {iterset(m), toset(m)}}

\* lines 269-273: the maps of the indirect common_incs that go from set1
\* to set2 (no map here has factors)
fusion_maps(base_loop, loop, set1, set2) ==
    LET maps == {a.map : a \in {x \in common_incs(base_loop, loop) :
                                    _is_indirect(x)}}
    IN  {m \in maps : set1 = iterset(m) /\ set2 = toset(m)}

\* a plausible slip: a pair without a connecting map ends the scan
on_no_map_break == "break"

\* lines 282-283: without a map between the two sets the scan goes on
on_no_map == "continue"

\* Inspector._hard_fuse, the inner for loop from enumerate's i = k on, for
\* the base loop lc[b]: the last value given to i (0 when the for loop ran
\* over nothing) and the pair appended to fusible, if any, with the
\* positions in the chain of the loop the scan started from and of the
\* loop it matched
RECURSIVE hard_inner(_, _, _)
hard_inner(lc, b, k) ==
    IF b + k > Len(lc) THEN [i |-> k - 1, found |-> <<>>]
    ELSE
      LET base_loop == lc[b]
          loop      == lc[b + k]
          inf       == loops_analyzer(base_loop, loop)
          set1      == base_loop.it_space
          set2      == loop.it_space
          fusion_map_1 == fusion_maps(base_loop, loop, set1, set2)
          fusion_map_2 == fusion_maps(base_loop, loop, set2, set1)
          fuse_loop == IF fusion_map_1 # {} THEN loop ELSE base_loop
          new_base  == IF fusion_map_1 # {} THEN base_loop ELSE loop
          fusion_map ==
              CHOOSE m \in (IF fusion_map_1 # {} THEN fusion_map_1
                            ELSE fusion_map_2) : TRUE
      IN  IF inf.homogeneous THEN hard_inner(lc, b, k + 1)
          ELSE IF ~inf.pure_iai THEN [i |-> k, found |-> <<>>]
          ELSE IF common_incs(base_loop, loop) = {}
          THEN [i |-> k, found |-> <<>>]
          ELSE IF fusion_map_1 = {} /\ fusion_map_2 = {}
          THEN IF on_no_map = "continue" THEN hard_inner(lc, b, k + 1)
               ELSE [i |-> k, found |-> <<>>]
          ELSE IF fuse_has_direct(fuse_loop) THEN [i |-> k, found |-> <<>>]
          ELSE [i |-> k,
                found |-> <<[base_loop |-> new_base,
                             fuse_loop |-> fuse_loop,
                             fusion_map |-> fusion_map,
                             swapped |-> (fusion_map_1 = {}),
                             scanned_from |-> b,
                             matched_at |-> b + k,
                             common_inc |->
                                 {a \in common_incs(base_loop, loop) :
                                      a \in new_base.args}]>>]

\* Inspector._hard_fuse, the while loop from base_loop_index on; i is the
\* value the local i holds (0: not bound yet). It ends with the list
\* fusible, or with the error of `base_loop_index += i` on an unbound i;
\* bases lists the values base_loop_index took.
RECURSIVE hard_scan(_, _, _, _, _)
hard_scan(lc, base_loop_index, i, fusible, bases) ==
    IF ~(base_loop_index < Len(lc))
    THEN [error |-> "none", fusible |-> fusible, bases |-> bases]
    ELSE LET r  == hard_inner(lc, base_loop_index + 1, 1)
             i2 == IF r.i = 0 THEN i ELSE r.i
         IN  IF i2 = 0
             THEN [error |-> "UnboundLocalError", fusible |-> fusible,
                   bases |-> Append(bases, base_loop_index)]
             ELSE hard_scan(lc, base_loop_index + i2, i2,
                            fusible \o r.found,
                            Append(bases, base_loop_index))

\* build_hard_fusion_kernel, lines 689-701: the body of the orchestrator:
\* the call of base, then for each idx in range(fusion_map.arity) the call
\* of fuse guarded by executed[fused_iters[idx]]
orchestrator(fusion_map) ==
    <<[call |-> "base", guarded_by |-> -1]>> \o
    [n \in 1..arity(fusion_map) |-> [call |-> "fuse", guarded_by |-> n - 1]]

\* build_hard_fusion_kernel, lines 717-730: the temporaries of a fuse
\* argument are set up for INC and for READ only
staged_access == {"INC", "READ"}

\* build_hard_fusion_kernel: it raises when the first argument of the fuse
\* loop has another access than INC and READ (buffer_decl is then read
\* before it is bound, line 766); inc_or_read_first tells whether the
\* first argument of the fuse loop is an INC or READ one
build_hard_fusion_kernel(base_loop, fuse_loop, fusion_map, inc_or_read_first) ==
    LET may_be_first ==
            IF inc_or_read_first
            THEN {a \in fuse_loop.args : a.access \in staged_access}
            ELSE {a \in fuse_loop.args : a.access \notin staged_access}
    IN  IF ~inc_or_read_first /\ may_be_first # {}
        THEN [error |-> "UnboundLocalError", body |-> <<>>]
        ELSE [error |-> "none", body |-> orchestrator(fusion_map)]

\* Inspector._hard_fuse, lines 294-305, after a search that ended with
\* `found`; first_staged[n] tells whether the first argument of the fuse
\* loop of the n-th pair is an INC or READ one; search_error is the error
\* the search itself ended with
hard_fuse_kernels(found, first_staged) ==
    LET fused ==
            [n \in 1..Len(found.fusible) |->
                LET f == found.fusible[n]
                IN  build_hard_fusion_kernel(f.base_loop, f.fuse_loop,
                                             f.fusion_map, first_staged[n])]
        failed == {n \in 1..Len(fused) : fused[n].error # "none"}
    IN  IF found.error # "none"
        THEN [error |-> found.error, fusible |-> found.fusible,
              bases |-> found.bases, fused |-> <<>>,
              search_error |-> found.error]
        ELSE IF failed # {}
        THEN [error |-> "UnboundLocalError", fusible |-> found.fusible,
              bases |-> found.bases, fused |-> <<>>,
              search_error |-> found.error]
        ELSE [error |-> "none", fusible |-> found.fusible,
              bases |-> found.bases, fused |-> fused,
              search_error |-> found.error]

\* Inspector._hard_fuse: the search on a chain
hard_fuse_search(lc) == hard_scan(lc, 0, 0, <<>>, <<>>)

\* --------------------------------------------------------- SpecFusion
InitFusion ==
    /\ IdlePlan
    /\ IdleInspector
    /\ IdleAnalyzer
    /\ IdleOrchestrator
    /\ IdleTile
    /\ IdleReduction
    /\ \E n \in 1..MaxChain :
         \E sh \in [1..n -> ClientLoops(ChainDats(n))] :
             in_chain = ClientChain(sh)
    /\ soft = <<>>
    /\ resoft = <<>>
    /\ hard = <<>>

\* self._soft_fuse() on the client's chain
SoftFuse ==
    /\ soft = <<>>
    /\ soft' = <<soft_fuse(in_chain)>>
    /\ UNCHANGED <<in_chain, resoft, hard>>
    /\ UNCHANGED <<planVars, inspVars, anVars, orVars, tiVars, reVars>>

\* _soft_fuse run once more, on the chain it produced, instead of the
\* next pass
SoftFuseAgain ==
    /\ soft # <<>>
    /\ resoft = <<>>
    /\ hard = <<>>
    /\ resoft' = <<soft_fuse(soft[1].loop_chain)>>
    /\ UNCHANGED <<in_chain, soft, hard>>
    /\ UNCHANGED <<planVars, inspVars, anVars, orVars, tiVars, reVars>>

\* self._hard_fuse() on the chain soft fusion produced; the client chose
\* the order of the arguments of each loop
HardFuse ==
    /\ soft # <<>>
    /\ resoft = <<>>
    /\ hard = <<>>
    /\ LET found == hard_fuse_search(soft[1].loop_chain)
       IN  \E first_staged \in [1..Len(found.fusible) -> BOOLEAN] :
               hard' = <<hard_fuse_kernels(found, first_staged)>>
    /\ UNCHANGED <<in_chain, soft, resoft>>
    /\ UNCHANGED <<planVars, inspVars, anVars, orVars, tiVars, reVars>>

NextFusion ==
    \/ SoftFuse
    \/ SoftFuseAgain
    \/ HardFuse

SpecFusion == InitFusion /\ [][NextFusion]_vars

\* ----------------------------------------------------- SpecFusion: claims
SoftDone == soft # <<>>
HardDone == hard # <<>>

\* the pairs hard fusion accepted
Fusible == hard[1].fusible

\* C12: in every pair (base, fuse) that hard fusion accepts, roles swapped
\* or not, no argument of the fuse loop is direct.
C12_FuseLoopHasNoDirectArg ==
    HardDone =>
        \A n \in 1..Len(Fusible) :
            \A a \in Fusible[n].fuse_loop.args :
                a.kind = "indirect" /\ a.map # NoMap

\* a pair accepted after a swap of roles, the base loop having a direct
\* argument and the fuse loop two indirect ones
C12_Witness ==
    /\ HardDone
    /\ Len(Fusible) = 1
    /\ Fusible[1].swapped
    /\ \E a \in Fusible[1].base_loop.args : a.kind = "direct"
    /\ Cardinality(Fusible[1].fuse_loop.args) = 2

\* the list `handled` of the soft fusion of the client's chain
Handled == soft[1].handled

\* the loops of the client's chain iterate over one set and have direct
\* arguments only
HomogeneousDirectOnly ==
    /\ \A k \in 1..Len(in_chain) : in_chain[k].it_space = in_chain[1].it_space
    /\ \A k \in 1..Len(in_chain) : \A a \in in_chain[k].args : a.kind = "direct"

\* C13: for a chain of N >= 1 loops over one set with direct arguments
\* only, soft fusion makes exactly one execution step, which covers all N
\* loops, whatever direct hazards there are between them.
C13_DirectChainOneStep ==
    (SoftDone /\ HomogeneousDirectOnly) =>
        /\ Len(Handled) = 1
        /\ Handled[1].offset = Len(in_chain)
        /\ Handled[1].kernel.name = [k \in 1..Len(in_chain) |-> k]
        /\ Len(soft[1].loop_chain) = 1

\* three direct loops fused into one step although the second reads what
\* the first writes and the third writes what the second reads
C13_Witness ==
    /\ SoftDone
    /\ HomogeneousDirectOnly
    /\ Len(in_chain) = 3
    /\ loops_analyzer(in_chain[1], in_chain[2]).direct_raw
    /\ loops_analyzer(in_chain[2], in_chain[3]).direct_war
    /\ Len(Handled) = 1

GroupFirst(g) == IF g = 1 THEN 1 ELSE Handled[g - 1].offset + 1
GroupLast(g) == Handled[g].offset

\* C15: in a soft-fused kernel the bodies of the group's kernels appear in
\* chain order: every statement of every loop of the group occurs once,
\* a statement of an earlier loop before any statement of a later loop and
\* the statements of one loop in their own order, and the first statement
\* of each loop but the first comes right after a marker comment.
C15_BodiesInChainOrder ==
    SoftDone =>
        \A g \in 1..Len(Handled) :
            LET body == Handled[g].kernel.body
                stmts == {p \in 1..Len(body) : body[p] # FusedMarker}
            IN  /\ \A k \in GroupFirst(g)..GroupLast(g), n \in 1..KernelStmts :
                       Cardinality({p \in stmts :
                           body[p] = [kernel |-> k, line |-> n]}) = 1
                /\ \A p \in stmts :
                       body[p].kernel \in GroupFirst(g)..GroupLast(g)
                /\ \A p, q \in stmts :
                       p < q =>
                           \/ body[p].kernel < body[q].kernel
                           \/ /\ body[p].kernel = body[q].kernel
                              /\ body[p].line < body[q].line
                /\ \A p \in stmts :
                       (body[p].line = 1 /\ body[p].kernel # GroupFirst(g)) =>
                           (p > 1 /\ body[p - 1] = FusedMarker)
                /\ Cardinality((1..Len(body)) \ stmts) =
                       GroupLast(g) - GroupFirst(g)

\* a kernel made of the three kernels of a chain: the marker and then the
\* second loop's first statement follow the first loop's statements
C15_Witness ==
    /\ SoftDone
    /\ Len(in_chain) = 3
    /\ Len(Handled) = 1
    /\ Handled[1].kernel.body[KernelStmts + 1] = FusedMarker
    /\ Handled[1].kernel.body[KernelStmts + 2] = [kernel |-> 2, line |-> 1]

\* the maps of the incremented indirect arguments of two loops that relate
\* their iteration sets, in either direction
ConnectingMaps(A, B) ==
    {a.map : a \in {x \in incs(A) \cup incs(B) :
                       /\ x.kind = "indirect"
                       /\ {iterset(x.map), toset(x.map)} =
                              {A.it_space, B.it_space}}}

\* the chain is [A over S1, B over another set S2], both loops INC a common
\* field, which is all they do to it, and share no other data, a map of an
\* incremented indirect
\* argument relates the two sets, and the loop over the target set of that
\* map (the candidate fuse loop) has no direct argument
TwoLoopIncChain ==
    /\ Len(in_chain) = 2
    /\ in_chain[1].it_space # in_chain[2].it_space
    /\ all_incs(in_chain[1]) \cap all_incs(in_chain[2]) # {}
    /\ DataOf(in_chain[1]) \cap DataOf(in_chain[2]) =
           all_incs(in_chain[1]) \cap all_incs(in_chain[2])
    /\ Cardinality(DataOf(in_chain[1]) \cap DataOf(in_chain[2])) = 1
    /\ \A k \in 1..2 : \A a \in in_chain[k].args :
           a.data \in DataOf(in_chain[1]) \cap DataOf(in_chain[2]) =>
               a.access = "INC"
    /\ ConnectingMaps(in_chain[1], in_chain[2]) # {}
    /\ \A k \in 1..2 :
           (\E m \in ConnectingMaps(in_chain[1], in_chain[2]) :
                in_chain[k].it_space = toset(m)) =>
               \A a \in in_chain[k].args : a.kind = "indirect"

\* C16: for such a chain, mode hard records exactly one hard-fusion match,
\* of A and B, with a connecting map M, and the orchestrator synthesized
\* for it holds the call of base followed by exactly arity(M) guarded
\* calls of fuse.
C16_TwoLoopIncChainIsHardFused ==
    (HardDone /\ TwoLoopIncChain) =>
        /\ hard[1].error = "none"
        /\ Len(Fusible) = 1
        /\ {Fusible[1].base_loop, Fusible[1].fuse_loop} =
               {soft[1].loop_chain[1], soft[1].loop_chain[2]}
        /\ Fusible[1].fusion_map \in
               ConnectingMaps(in_chain[1], in_chain[2])
        /\ Len(hard[1].fused) = 1
        /\ Cardinality({n \in 1..Len(hard[1].fused[1].body) :
               hard[1].fused[1].body[n].call = "fuse"}) =
                   arity(Fusible[1].fusion_map)

\* the groups the k-th loop of the client's chain belongs to
GroupsOf(k) == {g \in 1..Len(Handled) : GroupFirst(g) <= k /\ k <= GroupLast(g)}

\* C19: the soft-fusion groups partition the chain into non-empty runs of
\* consecutive loops in chain order: the recorded end offsets are strictly
\* increasing and the last one is the chain length, every loop of the chain
\* is in exactly one group, the kernel of a group is made of the kernels of
\* its loops in chain order, and every group, also one of a single loop,
\* gives one execution step and one loop of the fused chain.
C19_GroupsPartitionChain ==
    SoftDone =>
        /\ Len(Handled) >= 1
        /\ Handled[Len(Handled)].offset = Len(in_chain)
        /\ \A g \in 1..Len(Handled) :
              /\ GroupFirst(g) <= GroupLast(g)
              /\ g > 1 => Handled[g - 1].offset < Handled[g].offset
              /\ Handled[g].index = g - 1
              /\ Handled[g].kernel.name =
                    [n \in 1..(GroupLast(g) - GroupFirst(g) + 1) |->
                        GroupFirst(g) + n - 1]
              /\ GroupFirst(g) = GroupLast(g) =>
                    Handled[g].kernel = in_chain[GroupFirst(g)].kernel
        /\ \A k \in 1..Len(in_chain) : Cardinality(GroupsOf(k)) = 1
        /\ Len(soft[1].loop_chain) = Len(Handled)
        /\ \A g \in 1..Len(Handled) :
              soft[1].loop_chain[g].kernel = Handled[g].kernel

\* three loops fused into a group of two and a group of one, which is
\* emitted as a step of its own
C19_Witness ==
    /\ SoftDone
    /\ Len(in_chain) = 3
    /\ Len(Handled) = 2
    /\ Handled[1].offset = 2
    /\ Handled[2].offset = 3
    /\ Handled[2].kernel = in_chain[3].kernel
    /\ Len(soft[1].loop_chain) = 2

\* the k-th loop of the client's chain is in the group of the loop
\* before it
JoinsGroup(k) == GroupsOf(k) = GroupsOf(k - 1)

C21_SameGroupPairwiseSafe ==
    SoftDone =>
        \A g \in 1..Len(Handled) :
            \A j, k \in GroupFirst(g)..GroupLast(g) :
                j < k =>
                    LET i == loops_analyzer(in_chain[j], in_chain[k])
                    IN  i.homogeneous /\ ~i.indirect_w

\* the chain hard fusion searched: the one soft fusion left
HardChain == soft[1].loop_chain

\* C22: in the forward scan of hard fusion from a base loop, the scan stops
\* at the first later loop that is not pure_iai with the base, homogeneous
\* with it or not; so for every accepted pair no loop between the base and
\* the matched loop fails to be pure_iai with the base.
C22_NoHazardBetweenBaseAndFuse ==
    HardDone =>
        \A n \in 1..Len(Fusible) :
            \A j \in (Fusible[n].scanned_from + 1)..(Fusible[n].matched_at - 1) :
                loops_analyzer(HardChain[Fusible[n].scanned_from],
                               HardChain[j]).pure_iai

\* the earlier and the later loop of the n-th accepted pair
EarlierLoop(n) == HardChain[Fusible[n].scanned_from]
LaterLoop(n) == HardChain[Fusible[n].matched_at]

\* C23: every pair hard fusion accepts is heterogeneous and pure_iai for
\* loops_analyzer, and its map goes from the base loop's iteration set to
\* the fuse loop's; the later loop is the fuse loop when a map of the
\* common increments goes from the earlier loop's set to the later one's,
\* and otherwise the loops swap roles, the later one being the base, so
\* that the map is still oriented from base to fuse.
C23_AcceptedPairsOriented ==
    HardDone =>
        \A n \in 1..Len(Fusible) :
            LET f == Fusible[n]
                i == loops_analyzer(f.base_loop, f.fuse_loop)
                forward == fusion_maps(EarlierLoop(n), LaterLoop(n),
                                       EarlierLoop(n).it_space,
                                       LaterLoop(n).it_space)
            IN  /\ i.heterogeneous
                /\ i.pure_iai
                /\ iterset(f.fusion_map) = f.base_loop.it_space
                /\ toset(f.fusion_map) = f.fuse_loop.it_space
                /\ f.swapped <=> (forward = {})
                /\ ~f.swapped =>
                      (f.base_loop = EarlierLoop(n) /\ f.fuse_loop = LaterLoop(n))
                /\ f.swapped =>
                      (f.base_loop = LaterLoop(n) /\ f.fuse_loop = EarlierLoop(n))

\* a chain with an accepted pair whose roles were swapped: the later loop
\* is the base, and the map goes from its set to the earlier loop's
C23_Witness ==
    /\ HardDone
    /\ Len(Fusible) = 1
    /\ Fusible[1].swapped
    /\ Fusible[1].base_loop = LaterLoop(1)
    /\ iterset(Fusible[1].fusion_map) = LaterLoop(1).it_space
    /\ toset(Fusible[1].fusion_map) = EarlierLoop(1).it_space

\* the positions in the chain of the two loops of the n-th accepted pair
PairLoops(n) == {Fusible[n].scanned_from, Fusible[n].matched_at}

\* C24: no loop of the chain is in more than one accepted hard-fusion
\* pair: the search resumes past both loops of an accepted pair, so the
\* loop matched in one pair is never the loop the next scan starts from.
C24_PairsShareNoLoop ==
    HardDone =>
        \A m, n \in 1..Len(Fusible) :
            m < n =>
                /\ PairLoops(m) \cap PairLoops(n) = {}
                /\ Fusible[n].scanned_from > Fusible[m].matched_at

\* the positions of the chain the scans of hard fusion started from
ScanBases == {hard[1].bases[x] + 1 : x \in 1..Len(hard[1].bases)}

\* the loops at positions b and k are over different sets
Heterogeneous(b, k) == loops_analyzer(HardChain[b], HardChain[k]).heterogeneous

\* the loops at b and k have no Dat in common, hence none both increment
NoCommonDatum(b, k) == DataOf(HardChain[b]) \cap DataOf(HardChain[k]) = {}

\* no Dat is incremented by both the loop at b and the loop at k
NoCommonIncrementedDatum(b, k) ==
    all_incs(HardChain[b]) \cap all_incs(HardChain[k]) = {}

\* the loops at b and k are pure_iai and neither direction has a map
NoConnectingMap(b, k) ==
    /\ loops_analyzer(HardChain[b], HardChain[k]).pure_iai
    /\ fusion_maps(HardChain[b], HardChain[k],
                   HardChain[b].it_space, HardChain[k].it_space) = {}
    /\ fusion_maps(HardChain[b], HardChain[k],
                   HardChain[k].it_space, HardChain[b].it_space) = {}

\* the pair of the loops at b and j meets every condition of hard fusion
MeetsAllConditions(b, j) ==
    LET B == HardChain[b]
        J == HardChain[j]
        forward == fusion_maps(B, J, B.it_space, J.it_space)
        backward == fusion_maps(B, J, J.it_space, B.it_space)
    IN  /\ Heterogeneous(b, j)
        /\ loops_analyzer(B, J).pure_iai
        /\ forward # {} \/ backward # {}
        /\ ~fuse_has_direct(IF forward # {} THEN J ELSE B)

\* the scan from b accepted the loop at j
Matched(b, j) ==
    \E n \in 1..Len(Fusible) :
        Fusible[n].scanned_from = b /\ Fusible[n].matched_at = j

C26_HardSearchTerminates ==
    HardDone =>
        /\ hard[1].search_error = "none"
        /\ Len(hard[1].bases) >= 1
        /\ hard[1].bases[1] = 0
        /\ \A x \in 2..Len(hard[1].bases) :
              hard[1].bases[x - 1] < hard[1].bases[x]
        /\ \A x \in 1..Len(hard[1].bases) : hard[1].bases[x] < Len(HardChain)

\* the data a loop writes with WRITE, RW, MIN or MAX
DataOverwritten(l) ==
    {a.data : a \in {x \in l.args : x.access \in {"WRITE", "RW", "MIN", "MAX"}}}

\* C27: whenever pure_iai is true the two loops have no other dependency;
\* in particular no datum is written (WRITE, RW, MIN or MAX) by both.
C27_PureIaiNoCommonWrite ==
    (Analyzed /\ info[1].pure_iai) =>
        DataOverwritten(loop1) \cap DataOverwritten(loop2) = {}

\* ================================================= the orchestrator at work
BaseElems == 1..NumBaseElems
FuseElems == 1..NumFuseElems

\* the array `executed` as the caller hands it to the first invocation
executed_initially == [f \in FuseElems |-> 0]

\* fused_iters, as the caller hands it to the invocation for base element
\* e: the row of the fusion map for e
fused_iters(e) == map_values[e]

\* the statement the running invocation is at
Stmt == orchestrator(orch_map)[orch_pc.at]

\* the orchestrator has statements left to run
Running ==
    /\ orch_pc.iter # 0
    /\ orch_pc.at <= Len(orchestrator(orch_map))

\* the fuse element of the statement at position p: the base call comes
\* first, then the statement for idx = 0, 1, ...
fused_iter(p) == fused_iters(orch_pc.iter)[p - 2]

\* line 697: not executed[fused_iters[idx]], for a guarded statement
GuardHolds ==
    IF Stmt.guarded_by = -1 THEN TRUE
    ELSE executed[fused_iters(orch_pc.iter)[Stmt.guarded_by]] = 0

Call(fn, elem) == [inv |-> Len(invoked), fn |-> fn, elem |-> elem]

InitOrchestrator ==
    /\ IdlePlan
    /\ IdleInspector
    /\ IdleAnalyzer
    /\ IdleFusion
    /\ IdleTile
    /\ IdleReduction
    /\ orch_map \in MapNames
    /\ map_values \in [BaseElems -> [0..(arity(orch_map) - 1) -> FuseElems]]
    /\ executed = executed_initially
    /\ orch_pc = [iter |-> 0, at |-> 0]
    /\ calls = <<>>
    /\ invoked = <<>>

\* the caller invokes the orchestrator for a base element it has not
\* iterated over yet
FusionEnter ==
    /\ orch_pc.iter = 0
    /\ \E e \in BaseElems \ {invoked[x] : x \in 1..Len(invoked)} :
          /\ invoked' = Append(invoked, e)
          /\ orch_pc' = [iter |-> e, at |-> 1]
    /\ UNCHANGED <<orch_map, map_values, executed, calls>>
    /\ UNCHANGED <<planVars, inspVars, anVars, fuVars, tiVars, reVars>>

\* line 691: the invocation of base
CallBase ==
    /\ Running
    /\ Stmt.call = "base"
    /\ calls' = Append(calls, Call("base", orch_pc.iter))
    /\ orch_pc' = [orch_pc EXCEPT !.at = @ + 1]
    /\ UNCHANGED <<orch_map, map_values, executed, invoked>>
    /\ UNCHANGED <<planVars, inspVars, anVars, fuVars, tiVars, reVars>>

\* lines 695-701, the if taken: fuse is called and the flag is set
CallFuse ==
    /\ Running
    /\ Stmt.call = "fuse"
    /\ GuardHolds
    /\ calls' = Append(calls, Call("fuse", fused_iter(orch_pc.at)))
    /\ executed' = [executed EXCEPT ![fused_iter(orch_pc.at)] = 1]
    /\ orch_pc' = [orch_pc EXCEPT !.at = @ + 1]
    /\ UNCHANGED <<orch_map, map_values, invoked>>
    /\ UNCHANGED <<planVars, inspVars, anVars, fuVars, tiVars, reVars>>

\* lines 695-701, the if not taken
SkipFuse ==
    /\ Running
    /\ Stmt.call = "fuse"
    /\ ~GuardHolds
    /\ orch_pc' = [orch_pc EXCEPT !.at = @ + 1]
    /\ UNCHANGED <<orch_map, map_values, executed, calls, invoked>>
    /\ UNCHANGED <<planVars, inspVars, anVars, fuVars, tiVars, reVars>>

\* the orchestrator returns to its caller
FusionReturn ==
    /\ orch_pc.iter # 0
    /\ orch_pc.at > Len(orchestrator(orch_map))
    /\ orch_pc' = [iter |-> 0, at |-> 0]
    /\ UNCHANGED <<orch_map, map_values, executed, calls, invoked>>
    /\ UNCHANGED <<planVars, inspVars, anVars, fuVars, tiVars, reVars>>

NextOrchestrator ==
    \/ FusionEnter
    \/ CallBase
    \/ CallFuse
    \/ SkipFuse
    \/ FusionReturn

SpecOrchestrator == InitOrchestrator /\ [][NextOrchestrator]_vars

\* ---------------------------------------------- SpecOrchestrator: claims
\* the positions in the history of the calls of fn made by invocation v
CallsOf(v, fn) == {p \in 1..Len(calls) : calls[p].inv = v /\ calls[p].fn = fn}

\* the positions in the history of the calls of fuse for the element f
FuseCalls(f) == {p \in 1..Len(calls) : calls[p].fn = "fuse" /\ calls[p].elem = f}

\* the fuse elements the map relates to the base element e
Related(e) == {map_values[e][n] : n \in DOMAIN map_values[e]}

\* the invocations that have returned
Returned == {v \in 1..Len(invoked) : v < Len(invoked) \/ orch_pc.iter = 0}

\* C28: in every invocation of the orchestrator the base kernel is called
\* once, for the base element of the invocation, before any call of fuse;
\* fuse is called for a related element only when its flag is not set, and
\* the flag is set with the call and stays set; so fuse runs at most once
\* for each element of the fuse set, only for elements related to the base
\* element, and exactly once for every element related to a base element
\* whose invocation has returned.
C28_FuseOncePerElement ==
    /\ \A v \in 1..Len(invoked) :
          /\ (v < Len(invoked) \/ orch_pc.at # 1) =>
                /\ Cardinality(CallsOf(v, "base")) = 1
                /\ \A p \in CallsOf(v, "base") : calls[p].elem = invoked[v]
          /\ \A p \in CallsOf(v, "base"), q \in CallsOf(v, "fuse") : p < q
          /\ \A q \in CallsOf(v, "fuse") : calls[q].elem \in Related(invoked[v])
    /\ \A f \in DOMAIN executed :
          /\ Cardinality(FuseCalls(f)) <= 1
          /\ executed[f] = 1 <=> FuseCalls(f) # {}
          /\ executed[f] \in {0, 1}
    /\ \A v \in Returned :
          \A f \in Related(invoked[v]) : Cardinality(FuseCalls(f)) = 1

\* two base iterations have run whose rows of the map share an element:
\* the second one skipped the fuse call for it and made another one
C28_Witness ==
    /\ orch_pc.iter = 0
    /\ Len(invoked) = 2
    /\ Related(invoked[1]) \cap Related(invoked[2]) # {}
    /\ Related(invoked[2]) \ Related(invoked[1]) # {}
    /\ Cardinality(CallsOf(2, "fuse")) >= 1
    /\ Cardinality(CallsOf(2, "fuse")) < arity(orch_map)
    /\ Cardinality(CallsOf(1, "base")) = 1
    /\ Cardinality(CallsOf(2, "base")) = 1

\* ======================================================= the tiling bridge
\* as_tuple(a.map, Map) for an argument of a loop over s: no map (direct),
\* one map (a Dat through a map) or two (the row and column maps of a Mat)
TileArgMaps(s) ==
    LET from_s == {m \in MapNames : iterset(m) = s}
    IN  {<<>>} \cup {<<m>> : m \in from_s}
               \cup {<<m1, m2>> : m1 \in from_s, m2 \in from_s}

TileArgs(s) == [maps : TileArgMaps(s), access : {"READ", "INC"}]

\* the lists of at most n arguments of a loop over s
RECURSIVE TileArgLists(_, _)
TileArgLists(s, n) ==
    IF n = 0 THEN {<<>>}
    ELSE LET shorter == TileArgLists(s, n - 1)
         IN  shorter \cup {Append(l, a) : l \in shorter, a \in TileArgs(s)}

\* the loops of a chain handed to _tile: the iteration set, whether the
\* loop iterates over a Subset of it, and the arguments in order
TileLoops ==
    UNION { [it_space : {s}, subset : BOOLEAN,
             args : TileArgLists(s, MaxTileArgs)] : s \in ChainSets }

\* the descriptor of a direct argument
DirectName == <<"DIRECT", 0, 0>>

\* line 361: map_name = "%s%d_%d" % (m.name, i, j); a Map iterates over
\* itself only, so j is 0
slope_map_name(m, i, j) == <<m, i, j>>

\* create_slope_set, lines 808-813: a Subset reaches `s.superset.name`,
\* and no `s` is defined
create_slope_set_name_error(loop) == loop.subset

\* the work of lines 352-366 for the maps of one argument from the i-th
\* on (i counts from 0): the dictionary insp_maps, the descriptors and the
\* sets created
RECURSIVE add_maps_of_arg(_, _, _)
add_maps_of_arg(a, i, acc) ==
    IF i >= Len(a.maps) THEN acc
    ELSE LET m == a.maps[i + 1]
             map_name == slope_map_name(m, i, 0)
         IN  add_maps_of_arg(a, i + 1,
                 [maps |-> Put(acc.maps, m,
                               [map_name |-> map_name, iterset |-> iterset(m),
                                toset |-> toset(m)]),
                  desc |-> acc.desc \cup {<<map_name, a.access>>},
                  sets |-> acc.sets \cup {iterset(m), toset(m)}])

\* lines 350-366: the for loop over loop.args from the n-th argument on
RECURSIVE add_args(_, _, _)
add_args(args, n, acc) ==
    IF n > Len(args) THEN acc
    ELSE LET a == args[n]
         IN  IF a.maps = <<>>
             THEN add_args(args, n + 1,
                           [acc EXCEPT !.desc = @ \cup {<<DirectName, a.access>>}])
             ELSE add_args(args, n + 1, add_maps_of_arg(a, 0, acc))

InitTile ==
    /\ IdlePlan
    /\ IdleInspector
    /\ IdleAnalyzer
    /\ IdleFusion
    /\ IdleOrchestrator
    /\ IdleReduction
    /\ \E n \in 1..MaxTileLoops :
         \E ch \in [1..n -> TileLoops] : tile_chain = ch
    /\ tile_pc = 1
    /\ insp_sets = {}
    /\ insp_maps = <<>>
    /\ insp_loops = <<>>
    /\ slope_insp = <<>>

AtLoop == tile_pc \in 1..Len(tile_chain)

\* lines 336-368, one iteration of `for loop in loop_chain`
RegisterLoop ==
    /\ AtLoop
    /\ ~create_slope_set_name_error(tile_chain[tile_pc])
    /\ LET loop == tile_chain[tile_pc]
           slope_set == loop.it_space
           r == add_args(loop.args, 1,
                         [maps |-> insp_maps, desc |-> {},
                          sets |-> insp_sets \cup {slope_set}])
       IN  /\ insp_sets' = r.sets
           /\ insp_maps' = r.maps
           /\ insp_loops' = Append(insp_loops,
                                   [kernel |-> tile_pc, set |-> slope_set,
                                    desc |-> r.desc])
    /\ tile_pc' = tile_pc + 1
    /\ UNCHANGED <<tile_chain, slope_insp>>
    /\ UNCHANGED <<planVars, inspVars, anVars, fuVars, orVars, reVars>>

\* line 341 for a loop over a Subset: create_slope_set raises
RegisterRaises ==
    /\ AtLoop
    /\ create_slope_set_name_error(tile_chain[tile_pc])
    /\ tile_pc' = -1
    /\ UNCHANGED <<tile_chain, insp_sets, insp_maps, insp_loops, slope_insp>>
    /\ UNCHANGED <<planVars, inspVars, anVars, fuVars, orVars, reVars>>

\* lines 370-372: add_sets(insp_sets.keys()), add_maps(insp_maps.values()),
\* add_loops(insp_loops)
Submit ==
    /\ tile_pc = Len(tile_chain) + 1
    /\ slope_insp' = <<[sets |-> insp_sets,
                        maps |-> {insp_maps[m] : m \in DOMAIN insp_maps},
                        loops |-> insp_loops]>>
    /\ tile_pc' = tile_pc + 1
    /\ UNCHANGED <<tile_chain, insp_sets, insp_maps, insp_loops>>
    /\ UNCHANGED <<planVars, inspVars, anVars, fuVars, orVars, reVars>>

NextTile ==
    \/ RegisterLoop
    \/ RegisterRaises
    \/ Submit

SpecTile == InitTile /\ [][NextTile]_vars

\* ------------------------------------------------------ SpecTile: claims
Registered == slope_insp # <<>>

\* the map names of the registered maps
RegisteredMapNames == {m.map_name : m \in slope_insp[1].maps}

\* C29: after _tile has registered a chain, every map name in the
\* descriptors of a loop is the name of a registered map, also when one map
\* is used at several positions (as row and as column map of a matrix
\* argument), and every set of a registered map or loop is a registered set.
C29_DescriptorsNameRegisteredMaps ==
    Registered =>
        /\ \A k \in 1..Len(slope_insp[1].loops) :
              /\ slope_insp[1].loops[k].set \in slope_insp[1].sets
              /\ \A d \in slope_insp[1].loops[k].desc :
                    d[1] # DirectName => d[1] \in RegisteredMapNames
        /\ \A m \in slope_insp[1].maps :
              m.iterset \in slope_insp[1].sets /\ m.toset \in slope_insp[1].sets

\* =========================================== global reductions under OpenMP
Threads == 1..NumThreads
RedBlocks == 1..NumRedBlocks

\* the accesses of a global reduction argument
ReductionAccess == {"INC", "MIN", "MAX"}

Max(a, b) == IF a > b THEN a ELSE b

\* c_intermediate_globals_init: (type)0 for INC, the global itself
\* otherwise
c_intermediate_globals_init(access, g) == IF access = "INC" THEN 0 ELSE g

\* the kernel, given the intermediate global in place of the global:
\* it combines the element's contribution into it as the access says
kernel_on_intermediate(access, l, x) ==
    IF access = "INC" THEN l + x
    ELSE IF access = "MIN" THEN Min(l, x)
    ELSE Max(l, x)

\* c_intermediate_globals_writeback, the statement `combine`, on the value
\* g read from the global and the intermediate l
combine(access, g, l) ==
    IF access = "INC" THEN g + l
    ELSE IF access = "MIN" THEN (IF g < l THEN g ELSE l)
    ELSE (IF g > l THEN g ELSE l)

\* a plausible slip: the write-back without the critical section
critical_not_taken(holder) == TRUE

\* #pragma omp critical: a thread enters when no thread is inside
critical_is_free(holder) == holder = 0

\* the blocks the omp for gave thread t that it has not run yet
BlocksLeft(t) == {b \in RedBlocks : owner[b] = t /\ block_runs[b] = 0}

InitReduction ==
    /\ IdlePlan
    /\ IdleInspector
    /\ IdleAnalyzer
    /\ IdleFusion
    /\ IdleOrchestrator
    /\ IdleTile
    /\ red_access \in ReductionAccess
    /\ gbl \in 0..MaxGlobal
    /\ gbl_before = gbl
    /\ contribution \in [RedBlocks -> 1..MaxContribution]
    /\ owner \in [RedBlocks -> Threads]
    /\ tpc = [t \in Threads |-> "init"]
    /\ interm = [t \in Threads |-> 0]
    /\ loaded = [t \in Threads |-> 0]
    /\ critical = 0
    /\ block_runs = [b \in RedBlocks |-> 0]

\* %(interm_globals_decl)s; %(interm_globals_init)s
InitIntermediate(t) ==
    /\ tpc[t] = "init"
    /\ interm' = [interm EXCEPT ![t] = c_intermediate_globals_init(red_access, gbl)]
    /\ tpc' = [tpc EXCEPT ![t] = "for"]
    /\ UNCHANGED <<red_access, gbl, gbl_before, contribution, owner, loaded,
                   critical, block_runs>>
    /\ UNCHANGED <<planVars, inspVars, anVars, fuVars, orVars, tiVars>>

\* one iteration of the omp for: the kernel runs for the element of the
\* next block of the thread
RunBlock(t) ==
    /\ tpc[t] = "for"
    /\ BlocksLeft(t) # {}
    /\ LET b == CHOOSE x \in BlocksLeft(t) : \A y \in BlocksLeft(t) : x <= y
       IN  /\ interm' = [interm EXCEPT
                            ![t] = kernel_on_intermediate(red_access, @,
                                                          contribution[b])]
           /\ block_runs' = [block_runs EXCEPT ![b] = @ + 1]
    /\ UNCHANGED <<red_access, gbl, gbl_before, contribution, owner, tpc,
                   loaded, critical>>
    /\ UNCHANGED <<planVars, inspVars, anVars, fuVars, orVars, tiVars>>

\* the thread has run its blocks and waits at the barrier that ends the
\* omp for
EndFor(t) ==
    /\ tpc[t] = "for"
    /\ BlocksLeft(t) = {}
    /\ tpc' = [tpc EXCEPT ![t] = "barrier"]
    /\ UNCHANGED <<red_access, gbl, gbl_before, contribution, owner, interm,
                   loaded, critical, block_runs>>
    /\ UNCHANGED <<planVars, inspVars, anVars, fuVars, orVars, tiVars>>

\* every thread has reached the barrier
PassBarrier(t) ==
    /\ tpc[t] = "barrier"
    /\ \A u \in Threads : tpc[u] \notin {"init", "for"}
    /\ tpc' = [tpc EXCEPT ![t] = "writeback"]
    /\ UNCHANGED <<red_access, gbl, gbl_before, contribution, owner, interm,
                   loaded, critical, block_runs>>
    /\ UNCHANGED <<planVars, inspVars, anVars, fuVars, orVars, tiVars>>

\* %(interm_globals_writeback)s: the thread enters the critical section
EnterCritical(t) ==
    /\ tpc[t] = "writeback"
    /\ critical_is_free(critical)
    /\ critical' = t
    /\ tpc' = [tpc EXCEPT ![t] = "load"]
    /\ UNCHANGED <<red_access, gbl, gbl_before, contribution, owner, interm,
                   loaded, block_runs>>
    /\ UNCHANGED <<planVars, inspVars, anVars, fuVars, orVars, tiVars>>

\* `combine`, the read of the global
LoadGlobal(t) ==
    /\ tpc[t] = "load"
    /\ loaded' = [loaded EXCEPT ![t] = gbl]
    /\ tpc' = [tpc EXCEPT ![t] = "store"]
    /\ UNCHANGED <<red_access, gbl, gbl_before, contribution, owner, interm,
                   critical, block_runs>>
    /\ UNCHANGED <<planVars, inspVars, anVars, fuVars, orVars, tiVars>>

\* `combine`, the write of the global, and the end of the critical section
StoreGlobal(t) ==
    /\ tpc[t] = "store"
    /\ gbl' = combine(red_access, loaded[t], interm[t])
    /\ critical' = IF critical = t THEN 0 ELSE critical
    /\ tpc' = [tpc EXCEPT ![t] = "done"]
    /\ UNCHANGED <<red_access, gbl_before, contribution, owner, interm,
                   loaded, block_runs>>
    /\ UNCHANGED <<planVars, inspVars, anVars, fuVars, orVars, tiVars>>

NextReduction ==
    \E t \in Threads :
        \/ InitIntermediate(t)
        \/ RunBlock(t)
        \/ EndFor(t)
        \/ PassBarrier(t)
        \/ EnterCritical(t)
        \/ LoadGlobal(t)
        \/ StoreGlobal(t)

SpecReduction == InitReduction /\ [][NextReduction]_vars

\* ------------------------------------------------- SpecReduction: claims
\* the parallel region has ended
LaunchDone == \A t \in DOMAIN tpc : tpc[t] = "done"

\* v combined with the contributions of the blocks 1..n
RECURSIVE Reduced(_, _, _)
Reduced(access, v, n) ==
    IF n = 0 THEN v
    ELSE LET r == Reduced(access, v, n - 1)
             x == contribution[n]
         IN  IF access = "INC" THEN r + x
             ELSE IF access = "MIN" THEN (IF x < r THEN x ELSE r)
             ELSE (IF x > r THEN x ELSE r)

\* C30: for a global reduction argument (INC, MIN or MAX) every thread
\* accumulates in an intermediate of its own, initialised before it runs
\* its blocks, and combines it into the global inside a critical section
\* after the block loop; so when the launch has ended the kernel has run
\* once for every block and the global is its value before the launch
\* combined with every contribution exactly once, whatever the
\* interleaving of the threads and the assignment of blocks to threads.
C30_GlobalReducedOnce ==
    /\ \A t \in DOMAIN tpc :
          /\ tpc[t] \in {"load", "store"} => critical = t
          /\ tpc[t] \in {"writeback", "load", "store", "done"} =>
                \A u \in DOMAIN tpc : tpc[u] \notin {"init", "for"}
    /\ (red_access # "None" /\ \A t \in DOMAIN tpc : tpc[t] \in {"init", "for", "barrier", "writeback"}) =>
          gbl = gbl_before
    /\ (red_access # "None" /\ LaunchDone) =>
          /\ \A b \in DOMAIN block_runs : block_runs[b] = 1
          /\ gbl = Reduced(red_access, gbl_before, NumRedBlocks)

\* an INC launch that has ended, in which each thread ran a block
C30_Witness ==
    /\ red_access = "INC"
    /\ LaunchDone
    /\ \A t \in Threads : \E b \in RedBlocks : owner[b] = t
    /\ gbl = gbl_before + contribution[1] + contribution[2]
    /\ gbl > gbl_before

====
